---- MODULE Spec2Model ----
(***************************************************************************)
(* State-machine model of the REMARCHIVE HTTP API (server/routes.ts).      *)
(* The persistence facade (server/storage.ts), the auth helpers and        *)
(* middleware (server/auth.ts) are modelled from the specification's       *)
(* sections 3, 4.1 and 5; the route handlers are modelled from routes.ts,  *)
(* split at their awaits where requests may interleave.                    *)
(***************************************************************************)
EXTENDS Naturals, Sequences, FiniteSets, TLC

\* ------------------------------------------------------------------ bounds

\* concurrent registration requests in flight
MaxReg == 2
\* concurrent login requests in flight
MaxLogin == 1
\* concurrent like/bookmark requests in flight
MaxTog == 2
\* fanworks ever created (the seeded one included)
MaxFanworks == 2
\* comments ever created
MaxComments == 2
\* reports ever created (the seeded one included)
MaxReports == 2
\* connections the server holds at a time
MaxConn == 2
\* runs of the scheduled health ping
MaxPing == 3
\* files ever written to the media store
MaxUploads == 2
\* uploads (POST /api/fanworks) in flight at once
MaxPost == 1
\* moderator / admin requests in flight at once
MaxAdm == 2
\* length of the short pasted texts
MaxText == 4

\* ------------------------------------------------------------------ values

\* an absent JSON body field (for a field the schema requires to be a
\* string, any value z.string() refuses)
Undefined == "<undefined>"

\* a JSON body field that is present and is not a string (null, a number)
Null == "<null>"

\* a key of a JSON body: its value, undefined when the body has no such key
Field(body, key) == IF key \in DOMAIN body THEN body[key] ELSE Undefined

\* z.string().email(): the format check, tabulated on the email strings that
\* requests are drawn from ("not-an-email" has no '@')
IsEmail(e) == e \in {"admin@r.co", "mod@r.co", "morty@r.co", "rick@r.co", "summer@r.co"}

\* bearer credentials: a signed token carries the user id it was issued for
NoToken == <<"none", 0>>
BadToken == <<"bad", 0>>

generateToken(id) == <<"jwt", id>>

\* verifyToken: the user id of a well-signed, unexpired token, else 0 (null)
verifyToken(tok) == IF tok[1] = "jwt" THEN tok[2] ELSE 0

\* bcrypt, as a keyed one-way image of the password
hashPassword(p) == <<"bcrypt", p>>

comparePassword(p, h) == h = hashPassword(p)

\* ------------------------------------------------------------------ state

VARIABLES
  users,    \* users table: id -> row
  issued,   \* ids for which a token has been handed to a client
  fanworks, \* fanworks table: id -> row
  reports,  \* reports table: id -> row
  rows,     \* likes / bookmarks tables: kind -> <<userId, fanworkId>> -> number of rows
  reg,      \* registration requests in flight
  login,    \* login requests in flight
  tog,      \* like / bookmark requests in flight
  hist,     \* per table and pair: the last toggle completed with no other in flight
  unbanned, \* ids of the users an unban has lifted a ban from
  comments, \* comments table: id -> row
  tags,     \* fanwork_tags join relation: fanwork id -> set of tag names
  nextId,   \* the serial id sequences of the fanworks and comments tables
  srv,      \* the HTTP server process: listening socket, connections, ping timer
  media,    \* the media store: the files uploaded to it, in order
  ui,       \* the client: the AO3 import component and the upload form
  post,     \* POST /api/fanworks requests in flight
  adm,      \* moderator / admin requests in flight
  resp,     \* the last exchange: the request answered last and its response
  tick      \* flips whenever a response is sent

vars == <<users, issued, fanworks, reports, rows, reg, login, tog, hist, unbanned,
          comments, tags, nextId, adm, srv, media, ui, post, resp, tick>>

db == <<users, fanworks, reports, rows, comments, tags>>

\* ------------------------------------------------------------------ persistence facade

User(email, username, passwordHash, role) ==
  [email |-> email, username |-> username, passwordHash |-> passwordHash,
   role |-> role, isBanned |-> FALSE, ageVerified |-> FALSE]

SeedUsers ==
  (1 :> User("admin@r.co", "admin", hashPassword("adminpw"), "admin")) @@
  (2 :> User("mod@r.co", "moddy", hashPassword("modpw12"), "moderator")) @@
  (3 :> User("morty@r.co", "morty", hashPassword("secret1"), "user"))

\* storage.getUserByEmail / getUserByUsername / getUserById: the id, 0 for undefined
getUserByEmail(us, e) ==
  IF \E i \in DOMAIN us : us[i].email = e
  THEN CHOOSE i \in DOMAIN us : us[i].email = e ELSE 0

getUserByUsername(us, n) ==
  IF \E i \in DOMAIN us : us[i].username = n
  THEN CHOOSE i \in DOMAIN us : us[i].username = n ELSE 0

getUserById(us, i) == IF i \in DOMAIN us THEN i ELSE 0

\* the unique constraints on users.email and users.username
UserInsertAllowed(us, e, n) ==
  getUserByEmail(us, e) = 0 /\ getUserByUsername(us, n) = 0

NextUserId(us) == Cardinality(DOMAIN us) + 1

\* storage.createUser: the table after the insert (role defaults to 'user')
createUser(us, e, n, h) == us @@ (NextUserId(us) :> User(e, n, h, "user"))

\* ------------------------------------------------------------------ responses

Resp(route, tok, target, arg, status, msg, token, val) ==
  [route |-> route, tok |-> tok, target |-> target, arg |-> arg,
   status |-> status, msg |-> msg, token |-> token, val |-> val]

NoResp == Resp("none", NoToken, 0, <<>>, 0, "", NoToken, FALSE)

Send(r) == resp' = r /\ tick' = 1 - tick

\* ------------------------------------------------------------------ POST /api/auth/register

Usernames == {"morty", "rick", "ab"}
RegEmails == {"morty@r.co", "rick@r.co", "summer@r.co", "not-an-email"}
Passwords == {"secret1", "12345"}

\* registerSchema.parse (firstName / lastName are optional and not modelled)
registerSchemaOk(e, n, p) ==
  /\ e # Undefined /\ IsEmail(e)
  /\ n # Undefined /\ Len(n) >= 3 /\ Len(n) <= 50
  /\ p # Undefined /\ Len(p) >= 6

IdleReg == [pc |-> "idle", email |-> "", username |-> "", password |-> "",
            hash |-> <<>>, dup |-> FALSE]

\* val echoes r.dup: whether the request met a stored email or username on arrival
RegResp(r, status, msg, token) ==
  Resp("register", NoToken, 0, <<>>, status, msg, token, r.dup)

\* the request arrives and its body is parsed (routes.ts:72); a body that fails
\* the schema is answered at once, otherwise the handler awaits getUserByEmail.
\* dup records whether the email or username was stored when the request arrived.
RegisterStart(s, e, n, p) ==
  /\ reg[s].pc = "idle"
  /\ LET r == [IdleReg EXCEPT !.email = e, !.username = n, !.password = p] IN
     IF registerSchemaOk(e, n, p)
     THEN /\ reg' = [reg EXCEPT ![s] =
                       [r EXCEPT !.pc = "email",
                                 !.dup = ~UserInsertAllowed(users, e, n)]]
          /\ UNCHANGED <<resp, tick>>
     ELSE /\ Send(RegResp(r, 400, "Validation error", NoToken))
          /\ UNCHANGED reg
  /\ UNCHANGED <<users, issued, fanworks, reports, rows, login, tog, hist, unbanned, comments, tags, nextId, adm, srv, media, ui, post>>

\* routes.ts:75-78
RegCheckEmail(s) ==
  /\ reg[s].pc = "email"
  /\ IF getUserByEmail(users, reg[s].email) # 0
     THEN /\ Send(RegResp(reg[s], 400, "Email already registered", NoToken))
          /\ reg' = [reg EXCEPT ![s] = IdleReg]
     ELSE /\ reg' = [reg EXCEPT ![s].pc = "username"]
          /\ UNCHANGED <<resp, tick>>
  /\ UNCHANGED <<users, issued, fanworks, reports, rows, login, tog, hist, unbanned, comments, tags, nextId, adm, srv, media, ui, post>>

NoUsernameCheck(us, n) == FALSE

\* the result of the username lookup decides (routes.ts:80-83)
UsernameTaken(us, n) == getUserByUsername(us, n) # 0

RegCheckUsername(s) ==
  /\ reg[s].pc = "username"
  /\ IF UsernameTaken(users, reg[s].username)
     THEN /\ Send(RegResp(reg[s], 400, "Username already taken", NoToken))
          /\ reg' = [reg EXCEPT ![s] = IdleReg]
     ELSE /\ reg' = [reg EXCEPT ![s].pc = "hash"]
          /\ UNCHANGED <<resp, tick>>
  /\ UNCHANGED <<users, issued, fanworks, reports, rows, login, tog, hist, unbanned, comments, tags, nextId, adm, srv, media, ui, post>>

\* routes.ts:86
RegHash(s) ==
  /\ reg[s].pc = "hash"
  /\ reg' = [reg EXCEPT ![s].pc = "create", ![s].hash = hashPassword(reg[s].password)]
  /\ UNCHANGED <<users, issued, fanworks, reports, rows, login, tog, hist, unbanned, comments, tags, nextId, adm, srv, media, ui, post, resp, tick>>

\* the id the credential of a successful registration is issued for (routes.ts:95)
WrongRegisterTokenId(us, newId) == IF newId > 1 THEN newId - 1 ELSE newId

RegisterTokenId(us, newId) == newId

\* routes.ts:87-99, and 104-105 when the insert throws on a unique constraint
RegCreate(s) ==
  /\ reg[s].pc = "create"
  /\ LET r == reg[s] IN
     IF UserInsertAllowed(users, r.email, r.username)
     THEN LET id == NextUserId(users)
              t == generateToken(RegisterTokenId(users, id)) IN
          /\ users' = createUser(users, r.email, r.username, r.hash)
          /\ issued' = issued \cup {t[2]}
          /\ Send(RegResp(r, 200, "", t))
     ELSE /\ Send(RegResp(r, 500, "Registration failed", NoToken))
          /\ UNCHANGED <<users, issued>>
  /\ reg' = [reg EXCEPT ![s] = IdleReg]
  /\ UNCHANGED <<fanworks, reports, rows, login, tog, hist, unbanned, comments, tags, nextId, adm, srv, media, ui, post>>

RegNext ==
  \/ \E s \in 1..MaxReg, e \in RegEmails, n \in Usernames, p \in Passwords :
       RegisterStart(s, e, n, p)
  \/ \E s \in 1..MaxReg : RegCheckEmail(s)
  \/ \E s \in 1..MaxReg : RegCheckUsername(s)
  \/ \E s \in 1..MaxReg : RegHash(s)
  \/ \E s \in 1..MaxReg : RegCreate(s)

\* ------------------------------------------------------------------ auth middleware

UserRoutesUnprotected == {"like", "bookmark"}

\* routes registered with authenticateToken
\* (routes.ts:137, 195, 222, 259, 271, 306, 327, 463)
AuthenticatedRoutes ==
  {"like", "bookmark", "auth.user", "fanworks.create", "fanworks.import",
   "comments.create", "reports.create", "verify-age"}

\* routes registered with optionalAuth (routes.ts:159, 179)
OptionalAuthRoutes == {"fanworks.list", "fanworks.get"}

UnbanUnprotected == {"reports.list", "reports.update", "ban", "hide", "unhide", "fanworks.delete"}

RoleAmongModeratorRoutes ==
  {"reports.list", "reports.update", "ban", "unban", "hide", "unhide", "fanworks.delete", "role"}

\* routes registered with requireModerator (routes.ts:346, 356, 375, 393, 405, 423, 435)
ModeratorRoutes ==
  {"reports.list", "reports.update", "ban", "unban", "hide", "unhide", "fanworks.delete"}

\* routes registered with requireAdmin (routes.ts:446)
AdminRoutes == {"role"}

\* the middleware each route is registered with; register and login have none
RouteAuth(route) ==
  CASE route \in AuthenticatedRoutes -> "authenticateToken"
    [] route \in OptionalAuthRoutes -> "optionalAuth"
    [] route \in ModeratorRoutes -> "requireModerator"
    [] route \in AdminRoutes -> "requireAdmin"
    [] OTHER -> "none"

Denied(status) == [ok |-> FALSE, status |-> status, id |-> 0, role |-> "none"]

\* authenticateToken: decode and verify the token and attach {id, role}; a
\* missing, invalid or expired token fails with 401 and nothing else does.
\* The token is made from the user id alone (generateToken(user.id),
\* routes.ts:95, 123), so the role attached is the stored one of that user.
\* The isBanned flag is not consulted: the only check of it is the login
\* handler's (routes.ts:114).
authenticateToken(us, tok) ==
  LET id == verifyToken(tok) IN
  IF id = 0 \/ getUserById(us, id) = 0 THEN Denied(401)
  ELSE [ok |-> TRUE, status |-> 0, id |-> id, role |-> us[id].role]

\* optionalAuth: as authenticateToken, but proceeds with no identity
optionalAuth(us, tok) ==
  LET a == authenticateToken(us, tok) IN
  IF a.ok THEN a ELSE [ok |-> TRUE, status |-> 0, id |-> 0, role |-> "none"]

requireRole(us, tok, allowed) ==
  LET a == authenticateToken(us, tok) IN
  IF ~a.ok THEN a
  ELSE IF a.role \notin allowed THEN Denied(403)
  ELSE a

requireModerator(us, tok) == requireRole(us, tok, {"moderator", "admin"})

requireAdmin(us, tok) == requireRole(us, tok, {"admin"})

\* the outcome of a route's middleware chain for a request carrying tok
Gate(us, route, tok) ==
  LET mw == RouteAuth(route) IN
  CASE mw = "authenticateToken" -> authenticateToken(us, tok)
    [] mw = "optionalAuth" -> optionalAuth(us, tok)
    [] mw = "requireModerator" -> requireModerator(us, tok)
    [] mw = "requireAdmin" -> requireAdmin(us, tok)
    [] OTHER -> [ok |-> TRUE, status |-> 0, id |-> 0, role |-> "none"]

DeniedMsg(status) == IF status = 401 THEN "Unauthorized" ELSE "Forbidden"

\* the credentials a client can send: none, a malformed or expired one, or a
\* token the server has issued
Creds == {NoToken, BadToken} \cup {generateToken(i) : i \in issued}

\* ------------------------------------------------------------------ POST /api/auth/login

\* loginSchema.parse
loginSchemaOk(e, p) == e # Undefined /\ IsEmail(e) /\ p # Undefined

LoginResp(e, p, status, msg, token) ==
  Resp("login", NoToken, 0, <<e, p>>, status, msg, token, FALSE)

IgnoresBan(us, u) == u = 0

\* routes.ts:114: no such user, or a banned one
LoginRefused(us, u) == u = 0 \/ us[u].isBanned

AnyPassword(p, h) == TRUE

\* routes.ts:118-119
PasswordAccepted(p, h) == comparePassword(p, h)

\* the answer to an unknown email or a banned user (routes.ts:115)
LookupRefusal == [status |-> 401, msg |-> "Invalid credentials"]

PasswordRefusalTells == [status |-> 401, msg |-> "Wrong password"]

\* the answer to a wrong password (routes.ts:120)
PasswordRefusal == [status |-> 401, msg |-> "Invalid credentials"]

\* the body is parsed and the user looked up (routes.ts:111-116); then the
\* handler awaits comparePassword
LoginStart(s, e, p) ==
  /\ login[s].pc = "idle"
  /\ IF ~loginSchemaOk(e, p)
     THEN /\ Send(LoginResp(e, p, 400, "Validation error", NoToken))
          /\ UNCHANGED login
     ELSE LET u == getUserByEmail(users, e) IN
          IF LoginRefused(users, u)
          THEN /\ Send(LoginResp(e, p, LookupRefusal.status, LookupRefusal.msg, NoToken))
               /\ UNCHANGED login
          ELSE /\ login' = [login EXCEPT ![s] =
                              [pc |-> "compare", email |-> e, password |-> p, uid |-> u,
                               hash |-> users[u].passwordHash]]
               /\ UNCHANGED <<resp, tick>>
  /\ UNCHANGED <<users, issued, fanworks, reports, rows, reg, tog, hist, unbanned, comments, tags, nextId, adm, srv, media, ui, post>>

\* routes.ts:118-127
LoginFinish(s) ==
  /\ login[s].pc = "compare"
  /\ LET r == login[s] IN
     IF PasswordAccepted(r.password, r.hash)
     THEN /\ Send(LoginResp(r.email, r.password, 200, "", generateToken(r.uid)))
          /\ issued' = issued \cup {r.uid}
     ELSE /\ Send(LoginResp(r.email, r.password, PasswordRefusal.status, PasswordRefusal.msg,
                            NoToken))
          /\ UNCHANGED issued
  /\ login' = [login EXCEPT ![s] = [pc |-> "idle", email |-> "", password |-> "",
                                     uid |-> 0, hash |-> <<>>]]
  /\ UNCHANGED <<users, fanworks, reports, rows, reg, tog, hist, unbanned, comments, tags, nextId, adm, srv, media, ui, post>>

\* ------------------------------------------------------------------ ban / unban

\* storage.banUser / unbanUser: a single UPDATE; no row, no change
\* (banReason, bannedBy and bannedAt are not modelled)
banUser(us, id) == IF id \in DOMAIN us THEN [us EXCEPT ![id].isBanned = TRUE] ELSE us

unbanUser(us, id) == IF id \in DOMAIN us THEN [us EXCEPT ![id].isBanned = FALSE] ELSE us

\* a request a role-gated handler has taken in and whose storage call has not
\* settled: the route, the credential, the addressed id, the body fields and
\* req.user!.id as the handler read it when it made the call
IdleAdm == [pc |-> "idle", route |-> "none", tok |-> NoToken, target |-> 0, arg |-> <<>>, by |-> 0]

Pending(route, tok, id, arg, by) ==
  [pc |-> "await", route |-> route, tok |-> tok, target |-> id, arg |-> arg, by |-> by]

Awaits(s, route) == adm[s].pc = "await" /\ adm[s].route = route

\* the storage call of slot s has settled: the handler answers and is done
AdminDone(s, status) ==
  /\ Send(Resp(adm[s].route, adm[s].tok, adm[s].target, adm[s].arg, status, "", NoToken, FALSE))
  /\ adm' = [adm EXCEPT ![s] = IdleAdm]

\* POST /api/admin/users/:id/ban, the middleware and the handler up to its
\* await (routes.ts:375-384): a refused request is answered at once and takes
\* no slot; with no identity attached req.user!.id throws and the handler
\* answers 500
Ban(s, tok, id) ==
  /\ LET g == Gate(users, "ban", tok) IN
     IF ~g.ok
     THEN /\ Send(Resp("ban", tok, id, <<>>, g.status, DeniedMsg(g.status), NoToken, FALSE))
          /\ UNCHANGED adm
     ELSE IF g.id = 0
     THEN /\ Send(Resp("ban", tok, id, <<>>, 500, "Failed to ban user", NoToken, FALSE))
          /\ UNCHANGED adm
     ELSE /\ adm[s].pc = "idle"
          /\ adm' = [adm EXCEPT ![s] = Pending("ban", tok, id, <<>>, g.id)]
          /\ UNCHANGED <<resp, tick>>
  /\ UNCHANGED <<users, issued, fanworks, reports, rows, reg, login, tog, hist, unbanned, comments, tags, nextId, srv, media, ui, post>>

\* storage.banUser settles and the handler answers (routes.ts:380-386)
BanSettle(s) ==
  /\ Awaits(s, "ban")
  /\ users' = banUser(users, adm[s].target)
  /\ AdminDone(s, 200)
  /\ UNCHANGED <<issued, fanworks, reports, rows, reg, login, tog, hist, unbanned, comments, tags, nextId, srv, media, ui, post>>

\* POST /api/admin/users/:id/unban, the middleware and the handler up to its
\* await (routes.ts:393-397)
Unban(s, tok, id) ==
  /\ LET g == Gate(users, "unban", tok) IN
     IF ~g.ok
     THEN /\ Send(Resp("unban", tok, id, <<>>, g.status, DeniedMsg(g.status), NoToken, FALSE))
          /\ UNCHANGED adm
     ELSE /\ adm[s].pc = "idle"
          /\ adm' = [adm EXCEPT ![s] = Pending("unban", tok, id, <<>>, g.id)]
          /\ UNCHANGED <<resp, tick>>
  /\ UNCHANGED <<users, issued, fanworks, reports, rows, reg, login, tog, hist, unbanned, comments, tags, nextId, srv, media, ui, post>>

\* storage.unbanUser settles and the handler answers (routes.ts:397-398)
UnbanSettle(s) ==
  /\ Awaits(s, "unban")
  /\ LET id == adm[s].target IN
     /\ users' = unbanUser(users, id)
     /\ unbanned' = IF id \in DOMAIN users /\ users[id].isBanned
                    THEN unbanned \cup {id} ELSE unbanned
  /\ AdminDone(s, 200)
  /\ UNCHANGED <<issued, fanworks, reports, rows, reg, login, tog, hist, comments, tags, nextId, srv, media, ui, post>>

\* ------------------------------------------------------------------ like / bookmark

Kinds == {"like", "bookmark"}

RowCount(rs, kind, pair) == IF pair \in DOMAIN rs[kind] THEN rs[kind][pair] ELSE 0

NoRowConstraint(rs, kind, pair) == TRUE

\* the uniqueness constraint on (userId, fanworkId)
RowInsertAllowed(rs, kind, pair) == RowCount(rs, kind, pair) = 0

insertRow(rs, kind, pair) ==
  [rs EXCEPT ![kind] = (pair :> (RowCount(rs, kind, pair) + 1)) @@ @]

deleteRows(rs, kind, pair) ==
  [rs EXCEPT ![kind] = [q \in (DOMAIN @) \ {pair} |-> @[q]]]

IdleTog == [pc |-> "idle", kind |-> "", tok |-> NoToken, uid |-> 0, fid |-> 0,
            found |-> FALSE, pre |-> FALSE, solo |-> FALSE]

AlwaysTrue(v) == TRUE

\* res.json({ isLiked }) / res.json({ isBookmarked }) (routes.ts:263, 275)
ToggleResponseVal(v) == v

TogResp(kind, tok, fid, status, msg, val) ==
  Resp(kind, tok, fid, <<>>, status, msg, NoToken, val)

SamePair(a, b) == a.pc # "idle" /\ a.kind = b.kind /\ a.uid = b.uid /\ a.fid = b.fid

\* middleware, then the first statement of storage.toggleLike / toggleBookmark:
\* the message of the catch block (routes.ts:266, 278)
ToggleFailure(kind) ==
  IF kind = "like" THEN "Failed to toggle like" ELSE "Failed to toggle bookmark"

\* the SELECT of the pair's row (routes.ts:259-262, 271-274).  A handler that
\* runs with no identity throws on req.user!.id and answers 500.
\* pre and solo record the row's existence on arrival and whether another
\* request on the same pair is in flight.
ToggleStart(s, kind, tok, fid) ==
  /\ tog[s].pc = "idle"
  /\ LET g == Gate(users, kind, tok) IN
     IF ~g.ok
     THEN /\ Send(TogResp(kind, tok, fid, g.status, DeniedMsg(g.status), FALSE))
          /\ UNCHANGED tog
     ELSE IF g.id = 0
     THEN /\ Send(TogResp(kind, tok, fid, 500, ToggleFailure(kind), FALSE))
          /\ UNCHANGED tog
     ELSE LET ex == RowCount(rows, kind, <<g.id, fid>>) > 0
              r == [pc |-> "write", kind |-> kind, tok |-> tok, uid |-> g.id, fid |-> fid,
                    found |-> ex, pre |-> ex,
                    solo |-> ~\E o \in 1..MaxTog : o # s /\ SamePair(tog[o], [kind |-> kind, uid |-> g.id, fid |-> fid])]
          IN /\ tog' = [o \in 1..MaxTog |->
                          IF o = s THEN r
                          ELSE IF SamePair(tog[o], r) THEN [tog[o] EXCEPT !.solo = FALSE]
                          ELSE tog[o]]
             /\ UNCHANGED <<resp, tick>>
  /\ UNCHANGED <<users, issued, fanworks, reports, rows, reg, login, hist, unbanned, comments, tags, nextId, adm, srv, media, ui, post>>

NoHist == [n |-> 0, pre |-> FALSE, res |-> FALSE]

HistOf(kind, pair) == IF pair \in DOMAIN hist[kind] THEN hist[kind][pair] ELSE NoHist

\* the second statement: DELETE when the row was found, INSERT otherwise; an
\* INSERT refused by the constraint throws, and the handler answers 500
\* (routes.ts:262-267, 274-279)
ToggleWrite(s) ==
  /\ tog[s].pc = "write"
  /\ LET r == tog[s]
         pair == <<r.uid, r.fid>>
         okIns == RowInsertAllowed(rows, r.kind, pair)
         status == IF r.found \/ okIns THEN 200 ELSE 500
         val == ToggleResponseVal(~r.found)
     IN /\ rows' = IF r.found THEN deleteRows(rows, r.kind, pair)
                   ELSE IF okIns THEN insertRow(rows, r.kind, pair)
                   ELSE rows
        /\ IF status = 200
           THEN Send(TogResp(r.kind, r.tok, r.fid, 200, "", val))
           ELSE Send(TogResp(r.kind, r.tok, r.fid, 500, ToggleFailure(r.kind), FALSE))
        /\ hist' = [hist EXCEPT ![r.kind] =
                      (pair :> IF r.solo /\ status = 200
                               THEN [n |-> IF HistOf(r.kind, pair).n = 0 THEN 1 ELSE 2,
                                     pre |-> r.pre, res |-> val]
                               ELSE NoHist) @@ @]
  /\ tog' = [tog EXCEPT ![s] = IdleTog]
  /\ UNCHANGED <<users, issued, fanworks, reports, reg, login, unbanned, comments, tags, nextId, adm, srv, media, ui, post>>

\* ------------------------------------------------------------------ moderation

\* a report row as created: pending, not reviewed (a timestamp is 0 for
\* null, 1 for set)
Report(reporterId) ==
  [reporterId |-> reporterId, status |-> "pending", moderationAction |-> "",
   reviewedBy |-> 0, reviewedAt |-> 0]

\* storage.updateReport: a single UPDATE of the given columns; no row, no change
updateReport(rs, id, updates) ==
  IF id \in DOMAIN rs
  THEN [rs EXCEPT ![id].status = updates.status,
                  ![id].moderationAction = updates.moderationAction,
                  ![id].reviewedBy = updates.reviewedBy,
                  ![id].reviewedAt = updates.reviewedAt]
  ELSE rs

\* a fanwork row as created: the moderation fields hold their defaults
\* (hidden false, the others null; a timestamp is 0 for null, 1 for set)
Fanwork(authorId, title, ao3WorkId) ==
  [authorId |-> authorId, title |-> title, ao3WorkId |-> ao3WorkId,
   hidden |-> FALSE, moderationReason |-> "", moderatedBy |-> 0, moderatedAt |-> 0]

\* storage.hideFanwork / unhideFanwork: a single UPDATE; no row, no change
hideFanwork(fs, id, reason, by) ==
  IF id \in DOMAIN fs
  THEN [fs EXCEPT ![id].hidden = TRUE, ![id].moderationReason = reason,
                  ![id].moderatedBy = by, ![id].moderatedAt = 1]
  ELSE fs

unhideFanwork(fs, id) ==
  IF id \in DOMAIN fs
  THEN [fs EXCEPT ![id].hidden = FALSE, ![id].moderationReason = "",
                  ![id].moderatedBy = 0, ![id].moderatedAt = 0]
  ELSE fs

\* storage.deleteFanwork: the row goes, and with it the like / bookmark rows,
\* the comments and the tag links that reference it
deleteFanwork(fs, id) == [f \in (DOMAIN fs) \ {id} |-> fs[f]]

deleteCommentsOf(cs, id) == [c \in {d \in DOMAIN cs : cs[d].fanworkId # id} |-> cs[c]]

deleteTagsOf(ts, id) == [f \in (DOMAIN ts) \ {id} |-> ts[f]]

deleteRowsOf(rs, id) ==
  [k \in Kinds |-> [q \in {p \in DOMAIN rs[k] : p[2] # id} |-> rs[k][q]]]

\* storage.updateUserRole
updateUserRole(us, id, role) == IF id \in DOMAIN us THEN [us EXCEPT ![id].role = role] ELSE us

\* the middleware refuses the request: 401 or 403, at once
AdminFail(route, tok, id, arg, g) ==
  Send(Resp(route, tok, id, arg, g.status, DeniedMsg(g.status), NoToken, FALSE))

\* GET /api/admin/reports, the middleware and the handler up to its await
\* (routes.ts:346-348)
GetReports(s, tok) ==
  /\ LET g == Gate(users, "reports.list", tok) IN
     IF ~g.ok THEN AdminFail("reports.list", tok, 0, <<>>, g) /\ UNCHANGED adm
     ELSE /\ adm[s].pc = "idle"
          /\ adm' = [adm EXCEPT ![s] = Pending("reports.list", tok, 0, <<>>, g.id)]
          /\ UNCHANGED <<resp, tick>>
  /\ UNCHANGED <<users, issued, fanworks, reports, rows, reg, login, tog, hist, unbanned, comments, tags, nextId, srv, media, ui, post>>

\* storage.getReports settles and the handler answers (routes.ts:348-349)
GetReportsSettle(s) ==
  /\ Awaits(s, "reports.list")
  /\ AdminDone(s, 200)
  /\ UNCHANGED <<users, issued, fanworks, reports, rows, reg, login, tog, hist, unbanned, comments, tags, nextId, srv, media, ui, post>>

ReviewerFromBody(g, body) == body.reviewedBy

\* reviewedBy: req.user!.id (routes.ts:364)
Reviewer(g, body) == g.id

\* the columns the handler writes (routes.ts:359-366): status and
\* moderationAction of the body, the requester, the time of the request
ReportUpdates(r) ==
  [status |-> r.arg[1], moderationAction |-> r.arg[2],
   reviewedBy |-> r.by, reviewedAt |-> 1]

\* PATCH /api/admin/reports/:id, the middleware and the handler up to its
\* await (routes.ts:356-366); body: the fields status, moderationAction and
\* reviewedBy of the JSON body
PatchReportBody(s, tok, id, body) ==
  /\ LET g == Gate(users, "reports.update", tok)
         arg == <<body.status, body.moderationAction, body.reviewedBy>>
     IN IF ~g.ok
        THEN AdminFail("reports.update", tok, id, arg, g) /\ UNCHANGED adm
        ELSE IF g.id = 0
        THEN /\ Send(Resp("reports.update", tok, id, arg, 500, "Failed to update report", NoToken, FALSE))
             /\ UNCHANGED adm
        ELSE /\ adm[s].pc = "idle"
             /\ adm' = [adm EXCEPT ![s] = Pending("reports.update", tok, id, arg, Reviewer(g, body))]
             /\ UNCHANGED <<resp, tick>>
  /\ UNCHANGED <<users, issued, fanworks, reports, rows, reg, login, tog, hist, unbanned, comments, tags, nextId, srv, media, ui, post>>

\* the same request with a body that carries a status alone
PatchReport(s, tok, id, status) ==
  PatchReportBody(s, tok, id, [status |-> status, moderationAction |-> Undefined, reviewedBy |-> 0])

\* storage.updateReport settles and the handler answers (routes.ts:361-368)
PatchReportSettle(s) ==
  /\ Awaits(s, "reports.update")
  /\ reports' = updateReport(reports, adm[s].target, ReportUpdates(adm[s]))
  /\ AdminDone(s, 200)
  /\ UNCHANGED <<users, issued, fanworks, rows, reg, login, tog, hist, unbanned, comments, tags, nextId, srv, media, ui, post>>

\* PATCH /api/admin/fanworks/:id/hide, the middleware and the handler up to
\* its await (routes.ts:405-414)
Hide(s, tok, id, reason) ==
  /\ LET g == Gate(users, "hide", tok) IN
     IF ~g.ok
     THEN AdminFail("hide", tok, id, <<reason>>, g) /\ UNCHANGED adm
     ELSE IF g.id = 0
     THEN /\ Send(Resp("hide", tok, id, <<reason>>, 500, "Failed to hide fanwork", NoToken, FALSE))
          /\ UNCHANGED adm
     ELSE /\ adm[s].pc = "idle"
          /\ adm' = [adm EXCEPT ![s] = Pending("hide", tok, id, <<reason>>, g.id)]
          /\ UNCHANGED <<resp, tick>>
  /\ UNCHANGED <<users, issued, fanworks, reports, rows, reg, login, tog, hist, unbanned, comments, tags, nextId, srv, media, ui, post>>

\* storage.hideFanwork settles and the handler answers (routes.ts:410-416)
HideSettle(s) ==
  /\ Awaits(s, "hide")
  /\ fanworks' = hideFanwork(fanworks, adm[s].target, adm[s].arg[1], adm[s].by)
  /\ AdminDone(s, 200)
  /\ UNCHANGED <<users, issued, reports, rows, reg, login, tog, hist, unbanned, comments, tags, nextId, srv, media, ui, post>>

\* PATCH /api/admin/fanworks/:id/unhide, the middleware and the handler up to
\* its await (routes.ts:423-427)
Unhide(s, tok, id) ==
  /\ LET g == Gate(users, "unhide", tok) IN
     IF ~g.ok
     THEN AdminFail("unhide", tok, id, <<>>, g) /\ UNCHANGED adm
     ELSE /\ adm[s].pc = "idle"
          /\ adm' = [adm EXCEPT ![s] = Pending("unhide", tok, id, <<>>, g.id)]
          /\ UNCHANGED <<resp, tick>>
  /\ UNCHANGED <<users, issued, fanworks, reports, rows, reg, login, tog, hist, unbanned, comments, tags, nextId, srv, media, ui, post>>

\* storage.unhideFanwork settles and the handler answers (routes.ts:427-428)
UnhideSettle(s) ==
  /\ Awaits(s, "unhide")
  /\ fanworks' = unhideFanwork(fanworks, adm[s].target)
  /\ AdminDone(s, 200)
  /\ UNCHANGED <<users, issued, reports, rows, reg, login, tog, hist, unbanned, comments, tags, nextId, srv, media, ui, post>>

\* DELETE /api/admin/fanworks/:id, the middleware and the handler up to its
\* await (routes.ts:435-438)
DeleteFanwork(s, tok, id) ==
  /\ LET g == Gate(users, "fanworks.delete", tok) IN
     IF ~g.ok
     THEN AdminFail("fanworks.delete", tok, id, <<>>, g) /\ UNCHANGED adm
     ELSE /\ adm[s].pc = "idle"
          /\ adm' = [adm EXCEPT ![s] = Pending("fanworks.delete", tok, id, <<>>, g.id)]
          /\ UNCHANGED <<resp, tick>>
  /\ UNCHANGED <<users, issued, fanworks, reports, rows, reg, login, tog, hist, unbanned, comments, tags, nextId, srv, media, ui, post>>

\* storage.deleteFanwork settles and the handler answers (routes.ts:438-439)
DeleteFanworkSettle(s) ==
  /\ Awaits(s, "fanworks.delete")
  /\ LET id == adm[s].target IN
     /\ fanworks' = deleteFanwork(fanworks, id)
     /\ rows' = deleteRowsOf(rows, id)
     /\ comments' = deleteCommentsOf(comments, id)
     /\ tags' = deleteTagsOf(tags, id)
  /\ AdminDone(s, 204)
  /\ UNCHANGED <<users, issued, reports, reg, login, tog, hist, unbanned, nextId, srv, media, ui, post>>

AnyRole == {"user", "moderator", "admin", "owner", Undefined}

\* ['user', 'moderator', 'admin'] (routes.ts:451)
ValidRoles == {"user", "moderator", "admin"}

\* PATCH /api/admin/users/:id/role, the middleware and the handler up to its
\* await (routes.ts:446-455): a role outside the enumeration is answered 400
\* at once
PatchRole(s, tok, id, role) ==
  /\ LET g == Gate(users, "role", tok) IN
     IF ~g.ok
     THEN AdminFail("role", tok, id, <<role>>, g) /\ UNCHANGED adm
     ELSE IF role \notin ValidRoles
     THEN /\ Send(Resp("role", tok, id, <<role>>, 400, "Invalid role", NoToken, FALSE))
          /\ UNCHANGED adm
     ELSE /\ adm[s].pc = "idle"
          /\ adm' = [adm EXCEPT ![s] = Pending("role", tok, id, <<role>>, g.id)]
          /\ UNCHANGED <<resp, tick>>
  /\ UNCHANGED <<users, issued, fanworks, reports, rows, reg, login, tog, hist, unbanned, comments, tags, nextId, srv, media, ui, post>>

\* storage.updateUserRole settles and the handler answers (routes.ts:455-456)
PatchRoleSettle(s) ==
  /\ Awaits(s, "role")
  /\ users' = updateUserRole(users, adm[s].target, adm[s].arg[1])
  /\ AdminDone(s, 200)
  /\ UNCHANGED <<issued, fanworks, reports, rows, reg, login, tog, hist, unbanned, comments, tags, nextId, srv, media, ui, post>>

\* ------------------------------------------------------------------ GET routes

\* parseInt on a route or query parameter; NaN for a string with no leading digit
NaN == 0 - 1

ParseInt(str) ==
  CASE str = "1" -> 1
    [] str = "2" -> 2
    [] str = "3" -> 3
    [] str = "5" -> 5
    [] str = "9" -> 9
    [] str = "2.5" -> 2
    [] OTHER -> NaN

\* GET /api/auth/user (routes.ts:137-156)
GetUser(tok) ==
  /\ LET g == Gate(users, "auth.user", tok) IN
     IF ~g.ok THEN AdminFail("auth.user", tok, 0, <<>>, g)
     ELSE IF g.id = 0
     THEN Send(Resp("auth.user", tok, 0, <<>>, 500, "Failed to fetch user", NoToken, <<>>))
     ELSE IF getUserById(users, g.id) = 0
     THEN Send(Resp("auth.user", tok, 0, <<>>, 404, "User not found", NoToken, <<>>))
     ELSE Send(Resp("auth.user", tok, 0, <<>>, 200, "", NoToken, <<g.id>>))
  /\ UNCHANGED <<users, issued, fanworks, reports, rows, reg, login, tog, hist, unbanned,
                 comments, tags, nextId, adm, srv, media, ui, post>>

\* a query parameter as express parses it: absent, one string, or an array
\* of strings (a repeated key)
Absent == [kind |-> "absent", v |-> <<>>]
Str(x) == [kind |-> "string", v |-> <<x>>]
Arr(xs) == [kind |-> "array", v |-> xs]

\* JavaScript truthiness of a query parameter: undefined and '' are falsy
Truthy(q) == ~(q.kind = "absent" \/ (q.kind = "string" /\ q.v[1] = ""))

NoFilter == [on |-> FALSE, v |-> <<>>]

TagsFilterKeepsEmpty(q) ==
  IF q.kind # "absent" THEN [on |-> TRUE, v |-> q.v] ELSE NoFilter

\* filters.tags (routes.ts:164): undefined for a falsy parameter, the array as
\* it is, a single string wrapped in an array
TagsFilter(q) ==
  IF Truthy(q) THEN [on |-> TRUE, v |-> q.v] ELSE NoFilter

\* filters.limit / filters.offset (routes.ts:167-168)
LimitFilter(q) == IF Truthy(q) THEN ParseInt(q.v[1]) ELSE 20

OffsetFilter(q) == IF Truthy(q) THEN ParseInt(q.v[1]) ELSE 0

Range(seq) == {seq[i] : i \in 1..Len(seq)}

\* the ids in ascending order
RECURSIVE Sorted(_)
Sorted(S) ==
  IF S = {} THEN <<>>
  ELSE LET m == CHOOSE x \in S : \A y \in S : x <= y IN <<m>> \o Sorted(S \ {m})

\* storage.getFanworks: the fanworks that carry one of filters.tags and are by
\* filters.authorId (each only when given), in id order, from offset, at most limit
Matching(fs, ts, f) ==
  {i \in DOMAIN fs :
     /\ f.tags.on => (i \in DOMAIN ts /\ ts[i] \cap Range(f.tags.v) # {})
     /\ f.authorId # 0 => fs[i].authorId = f.authorId}

getFanworks(fs, ts, f) ==
  LET all == Sorted(Matching(fs, ts, f)) IN
  SubSeq(all, f.offset + 1, IF Len(all) < f.offset + f.limit THEN Len(all) ELSE f.offset + f.limit)

ListResp(tok, q, status, msg, val) ==
  Resp("fanworks.list", tok, q.authorId, <<q.tags, q.limit>>, status, msg, NoToken, val)

\* the handler's answer to the query q on the tables fs, ts
\* (routes.ts:161-175); a NaN limit makes the query throw
ListOutcome(fs, ts, q) ==
  LET f == [tags |-> TagsFilter(q.tags), authorId |-> q.authorId,
            limit |-> LimitFilter(q.limit), offset |-> OffsetFilter(Absent)]
  IN IF f.limit = NaN
     THEN [status |-> 500, msg |-> "Failed to fetch fanworks", val |-> <<>>]
     ELSE [status |-> 200, msg |-> "", val |-> getFanworks(fs, ts, f)]

\* GET /api/fanworks (routes.ts:159-177)
ListFanworks(tok, q) ==
  /\ LET g == Gate(users, "fanworks.list", tok)
         o == ListOutcome(fanworks, tags, q)
     IN IF ~g.ok THEN Send(ListResp(tok, q, g.status, DeniedMsg(g.status), <<>>))
        ELSE Send(ListResp(tok, q, o.status, o.msg, o.val))
  /\ UNCHANGED <<users, issued, fanworks, reports, rows, reg, login, tog, hist, unbanned,
                 comments, tags, nextId, adm, srv, media, ui, post>>

\* storage.getFanwork: the id, 0 for undefined
getFanwork(fs, id) == IF id \in DOMAIN fs THEN id ELSE 0

\* GET /api/fanworks/:id (routes.ts:179-193)
GetFanwork(tok, idParam) ==
  /\ LET g == Gate(users, "fanworks.get", tok)
         id == ParseInt(idParam)
     IN IF ~g.ok
        THEN Send(Resp("fanworks.get", tok, id, <<>>, g.status, DeniedMsg(g.status), NoToken, <<>>))
        ELSE IF getFanwork(fanworks, id) = 0
        THEN Send(Resp("fanworks.get", tok, id, <<>>, 404, "Fanwork not found", NoToken, <<>>))
        ELSE Send(Resp("fanworks.get", tok, id, <<>>, 200, "", NoToken, <<id>>))
  /\ UNCHANGED <<users, issued, fanworks, reports, rows, reg, login, tog, hist, unbanned,
                 comments, tags, nextId, adm, srv, media, ui, post>>

\* ------------------------------------------------------------------ upload middleware

\* /jpeg|jpg|png|gif|pdf|txt|doc|docx/.test(...) on the lower-cased extension
\* and on the mimetype (routes.ts:57-59); the pattern is not anchored, so a
\* string that holds one of the words anywhere passes
ExtAllowed(ext) == ext \in {".png", ".pdf", ".txt", ".pngx"}

MimeAllowed(mime) == mime \in {"image/png", "application/pdf"}

\* the files a request may attach: none, an image, a program, a text file
\* (text/plain holds none of the pattern's words), an image over the 10 MB
\* limit, an image whose transfer to the media store fails, a program sent
\* as an image, an image whose extension only holds an allowed word
NoFile == [ext |-> "", mime |-> "", big |-> FALSE, lost |-> FALSE]

File(ext, mime, big, lost) == [ext |-> ext, mime |-> mime, big |-> big, lost |-> lost]

Files ==
  {NoFile,
   File(".png", "image/png", FALSE, FALSE),
   File(".exe", "application/octet-stream", FALSE, FALSE),
   File(".txt", "text/plain", FALSE, FALSE),
   File(".png", "image/png", TRUE, FALSE),
   File(".png", "image/png", FALSE, TRUE),
   File(".exe", "image/png", FALSE, FALSE),
   File(".pngx", "image/png", FALSE, FALSE)}

FilterByMimeOnly(file) == MimeAllowed(file.mime)

\* routes.ts:56-66
fileFilter(file) == MimeAllowed(file.mime) /\ ExtAllowed(file.ext)

\* an error passed to next(): its status property (0 when it has none) and its message
Err(status, message) == [status |-> status, message |-> message]

NoErr == Err(0, "")

\* the text of the media store's own failure
StoreErrorText == "cloudinary: connect ECONNRESET 10.0.0.7:443"

\* upload.single('file'): the filter, then the transfer with its size limit
\* (routes.ts:53-67); a failure is passed to next(err)
uploadSingle(file) ==
  IF file = NoFile THEN NoErr
  ELSE IF ~fileFilter(file) THEN Err(0, "Only images and documents are allowed")
  ELSE IF file.big THEN Err(0, "File too large")
  ELSE IF file.lost THEN Err(0, StoreErrorText)
  ELSE NoErr

\* multerStorage (routes.ts:44-51, 54): a file that upload.single let through
\* has been written to the media store when the handler starts
storeFile(md, file) == IF file = NoFile THEN md ELSE Append(md, file)

\* the error-handling middleware (index.production.ts:78-84):
\* err.status || err.statusCode || 500 and err.message || "Internal Server Error"
ErrorMiddleware(err) ==
  Err(IF err.status # 0 THEN err.status ELSE 500,
      IF err.message # "" THEN err.message ELSE "Internal Server Error")

\* ------------------------------------------------------------------ POST /api/fanworks

\* insertFanworkSchema.parse: a title is required
insertFanworkSchemaOk(raw) == raw.title # Undefined

\* the row insertFanworkSchema.parse returns from { ...req.body, authorId }
\* (routes.ts:197-201). Whether the schema keeps a hidden key of the body or
\* strips it is not settled by the route, which spreads the whole body, so
\* admits leaves both open
insertFanworkSchemaParse(raw, admits) ==
  [Fanwork(raw.authorId, raw.title, "")
     EXCEPT !.hidden = admits /\ "hidden" \in DOMAIN raw /\ raw.hidden]

\* storage.createFanwork / addTagsToFanwork
createFanwork(fs, id, data) == fs @@ (id :> data)

addTagsToFanwork(ts, id, names) == (id :> Range(names)) @@ ts

FanworkInputBodyWins(body, uid) == body @@ [authorId |-> uid]

\* { ...req.body, authorId: req.user!.id, contentUrl } (routes.ts:197-201):
\* the later key wins, so the identity overrides an authorId of the body
FanworkInput(body, uid) == [authorId |-> uid] @@ body

\* a throw of addTagsToFanwork leaves the try block (routes.ts:206-209, 212)
TagStepThrows(tagsFail) == tagsFail

\* no upload in flight
IdlePost ==
  [pc |-> "idle", tok |-> NoToken, body |-> <<>>, file |-> <<>>, tagsFail |-> FALSE,
   uid |-> 0, data |-> <<>>, id |-> 0]

\* the uploads that may still reach createFanwork: each will take an id
PendingCreates == Cardinality({s \in 1..MaxPost : post[s].pc \in {"upload", "create"}})

\* the uploads whose file upload.single has not handled yet
PendingFiles == Cardinality({s \in 1..MaxPost : post[s].pc = "upload" /\ post[s].file # NoFile})

\* POST /api/fanworks arrives (routes.ts:195): authenticateToken, the first
\* link of the chain.  body: the multipart fields title, hidden and tags;
\* file: the attached file; tagsFail: whether the persistence layer will fail
\* in addTagsToFanwork.  A refused request is answered here; an admitted one
\* has its user attached and goes on to upload.single, which reads the body
\* and sends the file to the media store while other requests are served.
PostFanwork(s, tok, body, file, tagsFail) ==
  /\ post[s].pc = "idle"
  /\ nextId.fanworks + PendingCreates <= MaxFanworks
  /\ file # NoFile => Len(media) + PendingFiles < MaxUploads
  /\ LET g == Gate(users, "fanworks.create", tok)
     IN IF ~g.ok
        THEN /\ Send(Resp("fanworks.create", tok, 0, <<body, file, tagsFail>>, g.status,
                          DeniedMsg(g.status), NoToken, <<>>))
             /\ UNCHANGED post
        ELSE /\ post' = [post EXCEPT ![s] =
                           [pc |-> "upload", tok |-> tok, body |-> body, file |-> file,
                            tagsFail |-> tagsFail, uid |-> g.id, data |-> <<>>, id |-> 0]]
             /\ UNCHANGED <<resp, tick>>
  /\ UNCHANGED <<users, issued, fanworks, reports, rows, reg, login, tog, hist, unbanned,
                 comments, tags, nextId, adm, srv, media, ui>>

\* the response of an upload in flight
PostResp(r, status, msg, val) ==
  Resp("fanworks.create", r.tok, 0, <<r.body, r.file, r.tagsFail>>, status, msg, NoToken, val)

\* upload.single('file') ends (routes.ts:195) and the handler runs up to its
\* first await (routes.ts:197-203): a file refused by the filter, over the
\* limit or lost on the way goes to next(err), which the error middleware
\* answers; otherwise the file is in the media store before the body is
\* parsed, a body that fails the schema is answered 400, and one that parses
\* leaves createFanwork awaited.  The user attached at arrival is not read
\* again.
PostUpload(s) ==
  /\ post[s].pc = "upload"
  /\ LET r == post[s]
         up == uploadSingle(r.file)
         raw == FanworkInput(r.body, r.uid)
     IN /\ media' = IF up = NoErr THEN storeFile(media, r.file) ELSE media
        /\ IF up # NoErr
           THEN /\ Send(PostResp(r, ErrorMiddleware(up).status, ErrorMiddleware(up).message, <<>>))
                /\ post' = [post EXCEPT ![s] = IdlePost]
           ELSE IF r.uid = 0
           THEN /\ Send(PostResp(r, 500, "Failed to create fanwork", <<>>))
                /\ post' = [post EXCEPT ![s] = IdlePost]
           ELSE IF ~insertFanworkSchemaOk(raw)
           THEN /\ Send(PostResp(r, 400, "Validation error", <<>>))
                /\ post' = [post EXCEPT ![s] = IdlePost]
           ELSE /\ \E admits \in BOOLEAN :
                     post' = [post EXCEPT ![s] =
                                [r EXCEPT !.pc = "create",
                                          !.data = insertFanworkSchemaParse(raw, admits)]]
                /\ UNCHANGED <<resp, tick>>
  /\ UNCHANGED <<users, issued, fanworks, reports, rows, reg, login, tog, hist, unbanned,
                 comments, tags, nextId, adm, srv, ui>>

\* storage.createFanwork settles (routes.ts:203): the row is stored; with tags
\* in the body addTagsToFanwork is awaited next (routes.ts:206-209), without
\* them the handler answers 201 (routes.ts:211)
PostCreate(s) ==
  /\ post[s].pc = "create"
  /\ LET r == post[s]
         id == nextId.fanworks
     IN /\ fanworks' = createFanwork(fanworks, id, r.data)
        /\ nextId' = [nextId EXCEPT !.fanworks = id + 1]
        /\ IF ~Truthy(r.body.tags)
           THEN /\ Send(PostResp(r, 201, "", <<id>>))
                /\ post' = [post EXCEPT ![s] = IdlePost]
           ELSE /\ post' = [post EXCEPT ![s] = [r EXCEPT !.pc = "tags", !.id = id]]
                /\ UNCHANGED <<resp, tick>>
  /\ UNCHANGED <<users, issued, reports, rows, reg, login, tog, hist, unbanned,
                 comments, tags, adm, srv, media, ui>>

\* storage.addTagsToFanwork settles (routes.ts:208): the tags are stored and
\* the handler answers 201, or the call throws and the catch answers 500
\* (routes.ts:212-217)
PostTags(s) ==
  /\ post[s].pc = "tags"
  /\ LET r == post[s]
     IN IF TagStepThrows(r.tagsFail)
        THEN /\ Send(PostResp(r, 500, "Failed to create fanwork", <<>>))
             /\ UNCHANGED tags
        ELSE /\ tags' = addTagsToFanwork(tags, r.id, r.body.tags.v)
             /\ Send(PostResp(r, 201, "", <<r.id>>))
  /\ post' = [post EXCEPT ![s] = IdlePost]
  /\ UNCHANGED <<users, issued, fanworks, reports, rows, reg, login, tog, hist, unbanned,
                 comments, nextId, adm, srv, media, ui>>

\* ------------------------------------------------------------------ POST /api/fanworks/import/ao3

Ao3Urls ==
  {"https://archiveofourown.org/works/123", "https://archiveofourown.org/users/rick",
   "https://archiveofourown.org/works/123/chapters/456", "ao3/works/123",
   "works/123", Undefined}

\* z.string().url()
IsUrl(u) ==
  u \in {"https://archiveofourown.org/works/123", "https://archiveofourown.org/users/rick",
         "https://archiveofourown.org/works/123/chapters/456"}

Ao3LastDigits(u) ==
  IF u \in {"https://archiveofourown.org/works/123", "ao3/works/123"} THEN "123"
  ELSE IF u = "https://archiveofourown.org/works/123/chapters/456" THEN "456"
  ELSE ""

\* ao3Url.match(/\/works\/(\d+)/): the digits of the first match, "" for no
\* match ("works/123" has no slash before works)
Ao3WorkId(u) ==
  IF u \in {"https://archiveofourown.org/works/123",
            "https://archiveofourown.org/works/123/chapters/456", "ao3/works/123"}
  THEN "123" ELSE ""

\* ao3ImportSchema.parse (routes.ts:29-33): ao3Url is a string in URL format;
\* title and description are z.string().optional(), absent or a string
ao3ImportSchemaOk(body) ==
  /\ body.ao3Url \notin {Undefined, Null} /\ IsUrl(body.ao3Url)
  /\ Field(body, "title") # Null
  /\ Field(body, "description") # Null

\* title || `Imported from AO3 Work ${ao3WorkId}` (routes.ts:236)
ImportTitle(title, workId) ==
  IF title \notin {Undefined, ""} THEN title
  ELSE IF workId = "123" THEN "Imported from AO3 Work 123"
  ELSE "Imported from AO3 Work"

\* description || 'Imported from Archive of Our Own' (routes.ts:237)
ImportDescription(description) ==
  IF description \notin {Undefined, ""} THEN description
  ELSE "Imported from Archive of Our Own"

\* fanworkData (routes.ts:235-245): built from ao3Url, title and description
\* alone; every other column takes its default
ImportFanworkData(body, uid) ==
  Fanwork(uid, ImportTitle(Field(body, "title"), Ao3WorkId(body.ao3Url)), Ao3WorkId(body.ao3Url)) @@
  [type |-> "fanfiction", rating |-> "teen", ao3Url |-> body.ao3Url,
   description |-> ImportDescription(Field(body, "description"))]

\* POST /api/fanworks/import/ao3 (routes.ts:222-256); insertFails is the
\* outcome of storage.createFanwork, whose rejection the catch answers with
\* 500 (routes.ts:254)
ImportAO3(tok, body, insertFails) ==
  /\ nextId.fanworks + PendingCreates <= MaxFanworks
  /\ LET g == Gate(users, "fanworks.import", tok)
         id == nextId.fanworks
         R(status, msg, val) ==
           Resp("fanworks.import", tok, 0, <<body, insertFails>>, status, msg, NoToken, val)
     IN IF ~g.ok
        THEN /\ Send(R(g.status, DeniedMsg(g.status), <<>>))
             /\ UNCHANGED <<fanworks, nextId>>
        ELSE IF ~ao3ImportSchemaOk(body)
        THEN /\ Send(R(400, "Validation error", <<>>))
             /\ UNCHANGED <<fanworks, nextId>>
        ELSE IF Ao3WorkId(body.ao3Url) = ""
        THEN /\ Send(R(400, "Invalid AO3 URL format", <<>>))
             /\ UNCHANGED <<fanworks, nextId>>
        ELSE IF g.id = 0 \/ insertFails
        THEN /\ Send(R(500, "Failed to import from AO3", <<>>))
             /\ UNCHANGED <<fanworks, nextId>>
        ELSE /\ fanworks' = createFanwork(fanworks, id, ImportFanworkData(body, g.id))
             /\ nextId' = [nextId EXCEPT !.fanworks = id + 1]
             /\ Send(R(201, "", <<id>>))
  /\ UNCHANGED <<users, issued, reports, rows, reg, login, tog, hist, unbanned,
                 comments, tags, adm, srv, media, ui, post>>

\* ------------------------------------------------------------------ POST /api/fanworks/:id/comments

\* insertCommentSchema.parse: content is a required string, fanworkId a number
insertCommentSchemaOk(data) == data.content # Undefined /\ data.fanworkId # NaN

\* { ...req.body, userId: req.user!.id, fanworkId } (routes.ts:309-313): the
\* identity and the route parameter override what the body says
CommentData(body, uid, fid) == [content |-> body.content, userId |-> uid, fanworkId |-> fid]

\* the foreign key comments.fanworkId -> fanworks.id
CommentInsertAllowed(fs, data) == data.fanworkId \in DOMAIN fs

CommentKeyIsFanwork(newId, fid) == fid

\* the row a comment is written to: commentData carries no id, so
\* storage.createComment inserts a new row (routes.ts:309-315)
CommentKey(newId, fid) == newId

\* storage.createComment
createComment(cs, id, data) == [c \in (DOMAIN cs) \cup {id} |-> IF c = id THEN data ELSE cs[c]]

\* POST /api/fanworks/:id/comments (routes.ts:306-324)
PostComment(tok, idParam, body) ==
  /\ nextId.comments <= MaxComments
  /\ LET g == Gate(users, "comments.create", tok)
         fid == ParseInt(idParam)
         data == CommentData(body, g.id, fid)
         id == CommentKey(nextId.comments, fid)
         R(status, msg, val) ==
           Resp("comments.create", tok, fid, <<body>>, status, msg, NoToken, val)
     IN IF ~g.ok
        THEN /\ Send(R(g.status, DeniedMsg(g.status), <<>>))
             /\ UNCHANGED <<comments, nextId>>
        ELSE IF g.id = 0
        THEN /\ Send(R(500, "Failed to create comment", <<>>))
             /\ UNCHANGED <<comments, nextId>>
        ELSE IF ~insertCommentSchemaOk(data)
        THEN /\ Send(R(400, "Validation error", <<>>))
             /\ UNCHANGED <<comments, nextId>>
        ELSE IF ~CommentInsertAllowed(fanworks, data)
        THEN /\ Send(R(500, "Failed to create comment", <<>>))
             /\ UNCHANGED <<comments, nextId>>
        ELSE /\ comments' = createComment(comments, id, data)
             /\ nextId' = [nextId EXCEPT !.comments = @ + 1]
             /\ Send(R(201, "", <<id>>))
  /\ UNCHANGED <<users, issued, fanworks, reports, rows, reg, login, tog, hist, unbanned,
                 tags, adm, srv, media, ui, post>>

\* ------------------------------------------------------------------ POST /api/reports

\* insertReportSchema.parse: a reason is required
insertReportSchemaOk(data) == data.reason # Undefined

\* storage.createReport
createReport(rs, data) ==
  rs @@ (Cardinality(DOMAIN rs) + 1 :> Report(data.reporterId))

\* POST /api/reports (routes.ts:327-343)
PostReport(tok, body) ==
  /\ Cardinality(DOMAIN reports) < MaxReports
  /\ LET g == Gate(users, "reports.create", tok)
         data == [reason |-> body.reason, reporterId |-> g.id]
         R(status, msg) == Resp("reports.create", tok, 0, <<body>>, status, msg, NoToken, <<>>)
     IN IF ~g.ok
        THEN Send(R(g.status, DeniedMsg(g.status))) /\ UNCHANGED reports
        ELSE IF g.id = 0
        THEN Send(R(500, "Failed to create report")) /\ UNCHANGED reports
        ELSE IF ~insertReportSchemaOk(data)
        THEN Send(R(400, "Validation error")) /\ UNCHANGED reports
        ELSE /\ reports' = createReport(reports, data)
             /\ Send(R(201, ""))
  /\ UNCHANGED <<users, issued, fanworks, rows, reg, login, tog, hist, unbanned,
                 comments, tags, nextId, adm, srv, media, ui, post>>

\* ------------------------------------------------------------------ POST /api/auth/verify-age

\* storage.verifyUserAge
verifyUserAge(us, id) == IF id \in DOMAIN us THEN [us EXCEPT ![id].ageVerified = TRUE] ELSE us

\* POST /api/auth/verify-age (routes.ts:463-477); confirmed: the truthiness of
\* the body's field
VerifyAge(tok, confirmed) ==
  /\ LET g == Gate(users, "verify-age", tok)
         R(status, msg) == Resp("verify-age", tok, 0, <<confirmed>>, status, msg, NoToken, <<>>)
     IN IF ~g.ok
        THEN Send(R(g.status, DeniedMsg(g.status))) /\ UNCHANGED users
        ELSE IF ~confirmed
        THEN Send(R(400, "Age verification confirmation required")) /\ UNCHANGED users
        ELSE IF g.id = 0
        THEN Send(R(500, "Failed to verify age")) /\ UNCHANGED users
        ELSE /\ users' = verifyUserAge(users, g.id)
             /\ Send(R(200, ""))
  /\ UNCHANGED <<issued, fanworks, reports, rows, reg, login, tog, hist, unbanned,
                 comments, tags, nextId, adm, srv, media, ui, post>>

\* ------------------------------------------------------------------ the server process

\* everything but the server process
app == <<users, issued, fanworks, reports, rows, reg, login, tog, hist, unbanned,
         comments, tags, nextId, adm, media, ui, post, resp, tick>>

\* the process after server.listen (index.production.ts:92-118): the socket is
\* listening, no connection is open, the ping is scheduled and has not run.
\* conn: per connection "free", "busy" (a request in flight) or "idle" (kept
\* alive); closing: server.close was called; atCall: the connections whose
\* request was in flight when it was called, owed: those of them still
\* unanswered and open, served: those answered since, abandoned: those whose
\* client ended the connection before the answer; exit: the exit code, "none"
\* while the process runs; log / prev: what the last two pings logged
ServerUp ==
  [listening |-> TRUE, closing |-> FALSE, conn |-> [c \in 1..MaxConn |-> "free"],
   atCall |-> {}, owed |-> {}, served |-> {}, abandoned |-> {}, exit |-> "none",
   pings |-> 0, log |-> "", prev |-> ""]

Running == srv.exit = "none"

\* a client connects and sends a request: only a listening socket accepts
Connect(c) ==
  /\ Running /\ srv.listening /\ srv.conn[c] = "free"
  /\ srv' = [srv EXCEPT !.conn[c] = "busy"]
  /\ UNCHANGED app

\* the handler answers; the connection ends, or is kept alive when the client
\* asks for it (whether a closing server still keeps connections alive depends
\* on the runtime's version, so both are possible)
Respond(c, keep) ==
  /\ Running /\ srv.conn[c] = "busy"
  /\ srv' = [srv EXCEPT !.conn[c] = IF keep THEN "idle" ELSE "free",
                        !.owed = @ \ {c}, !.served = @ \cup ({c} \cap srv.owed)]
  /\ UNCHANGED app

\* a further request on a connection kept alive
Reuse(c) ==
  /\ Running /\ srv.conn[c] = "idle"
  /\ srv' = [srv EXCEPT !.conn[c] = "busy"]
  /\ UNCHANGED app

\* the client ends its connection with a request in flight: the request is
\* never answered
Drop(c) ==
  /\ Running /\ srv.conn[c] = "busy"
  /\ srv' = [srv EXCEPT !.conn[c] = "free",
                        !.owed = @ \ {c}, !.abandoned = @ \cup ({c} \cap srv.owed)]
  /\ UNCHANGED app

\* a connection kept alive ends: its client closes it, or the server's
\* keep-alive timeout does (the server is created with the runtime's default,
\* index.production.ts:92)
EndIdle(c) ==
  /\ Running /\ srv.conn[c] = "idle"
  /\ srv' = [srv EXCEPT !.conn[c] = "free"]
  /\ UNCHANGED app

ExitAtOnce(conn) == TRUE

\* server.close(callback): the callback runs once every connection has ended
\* (index.production.ts:123)
Drained(conn) == \A c \in 1..MaxConn : conn[c] = "free"

\* SIGTERM (index.production.ts:121-123): server.close stops the socket from
\* accepting; connections with a request in flight stay, and the idle ones are
\* ended at once (endIdle) or left to their timeout, by the runtime's version
Sigterm(endIdle) ==
  /\ Running /\ ~srv.closing
  /\ srv' = [srv EXCEPT !.listening = FALSE, !.closing = TRUE,
                        !.conn = [c \in 1..MaxConn |->
                                    IF endIdle /\ @[c] = "idle" THEN "free" ELSE @[c]],
                        !.atCall = {c \in 1..MaxConn : srv.conn[c] = "busy"},
                        !.owed = {c \in 1..MaxConn : srv.conn[c] = "busy"}]
  /\ UNCHANGED app

\* the callback of server.close: process.exit(0) (index.production.ts:123-126)
Closed ==
  /\ Running /\ srv.closing /\ Drained(srv.conn)
  /\ srv' = [srv EXCEPT !.exit = "0"]
  /\ UNCHANGED app

PingOutcomes == {"ok", "status", "timeout", "network"}

PingUncaught(outcome) == outcome \in {"timeout", "network"}

\* whether the cron callback lets an error escape: the fetch and the status
\* test are inside one try / catch (index.production.ts:101-114)
PingThrows(outcome) == FALSE

\* what the callback logs (index.production.ts:107-113)
PingLog(outcome) ==
  CASE outcome = "ok" -> "Anti-sleep ping successful"
    [] outcome = "status" -> "Anti-sleep ping failed with status"
    [] OTHER -> "Anti-sleep ping error"

\* a run of the scheduled ping (index.production.ts:100-115); an error that
\* escaped the async callback would end the process as an unhandled rejection
Ping(outcome) ==
  /\ Running /\ srv.pings < MaxPing
  /\ srv' = IF PingThrows(outcome)
            THEN [srv EXCEPT !.pings = @ + 1, !.exit = "1"]
            ELSE [srv EXCEPT !.pings = @ + 1, !.prev = srv.log, !.log = PingLog(outcome)]
  /\ UNCHANGED app

ServerNext ==
  \/ \E c \in 1..MaxConn : Connect(c)
  \/ \E c \in 1..MaxConn, keep \in BOOLEAN : Respond(c, keep)
  \/ \E c \in 1..MaxConn : Reuse(c)
  \/ \E c \in 1..MaxConn : Drop(c)
  \/ \E c \in 1..MaxConn : EndIdle(c)
  \/ \E endIdle \in BOOLEAN : Sigterm(endIdle)
  \/ Closed
  \/ \E o \in PingOutcomes : Ping(o)

\* ------------------------------------------------------------------ the client: pasted text

\* a text is a sequence of characters; the characters pasted texts are made of
Chars == {"a", ".", " ", "\n"}

\* whitespace, as String.prototype.trim and /\s+/ see it
IsSpace(c) == c \in {" ", "\n"}

\* n times the character c
Rep(c, n) == [i \in 1..n |-> c]

\* content.split('\n'): the lines, one more than there are line breaks
RECURSIVE Split(_)
Split(text) ==
  IF \A i \in 1..Len(text) : text[i] # "\n" THEN <<text>>
  ELSE LET k == CHOOSE i \in 1..Len(text) :
                  text[i] = "\n" /\ \A j \in 1..(i - 1) : text[j] # "\n"
       IN <<SubSeq(text, 1, k - 1)>> \o Split(SubSeq(text, k + 1, Len(text)))

\* lines.join('\n')
RECURSIVE Join(_)
Join(lines) ==
  IF lines = <<>> THEN <<>>
  ELSE IF Len(lines) = 1 THEN lines[1]
  ELSE lines[1] \o <<"\n">> \o Join(Tail(lines))

\* String.prototype.trim: whitespace is dropped at both ends
RECURSIVE Trim(_)
Trim(text) ==
  IF text = <<>> THEN <<>>
  ELSE IF IsSpace(text[1]) THEN Trim(Tail(text))
  ELSE IF IsSpace(text[Len(text)]) THEN Trim(SubSeq(text, 1, Len(text) - 1))
  ELSE text

\* line.includes('.')
IncludesPeriod(line) == \E i \in 1..Len(line) : line[i] = "."

\* lines[0].length < 200 (part_001:253)
TitleLimit == 200

TitleOfAnyLength(line) == line # <<>> /\ ~IncludesPeriod(line)

\* whether the first line looks like a title (part_001:253): not empty,
\* shorter than the limit, no period
LooksLikeTitle(line) == line # <<>> /\ Len(line) < TitleLimit /\ ~IncludesPeriod(line)

\* parseManualContent (part_001:244-264)
parseManualContent(content) ==
  LET lines == Split(content)
  IN IF LooksLikeTitle(lines[1])
     THEN [title |-> Trim(lines[1]), content |-> Trim(Join(Tail(lines))),
           description |-> <<>>, tags |-> <<>>]
     ELSE [title |-> <<>>, content |-> content, description |-> <<>>, tags |-> <<>>]

\* manualContent.split(/\s+/).length: one more than there are runs of whitespace
WordCount(text) ==
  1 + Cardinality({i \in 1..Len(text) : IsSpace(text[i]) /\ (i = 1 \/ ~IsSpace(text[i - 1]))})

\* the short texts, and texts whose first line is just under, at and over the
\* title limit
RECURSIVE TextsOfLen(_)
TextsOfLen(n) ==
  IF n = 0 THEN {<<>>} ELSE {<<c>> \o t : c \in Chars, t \in TextsOfLen(n - 1)}

LongTexts ==
  {Rep("a", TitleLimit - 1) \o <<"\n", "a">>, Rep("a", TitleLimit) \o <<"\n", "a">>,
   Rep("a", TitleLimit + 1), <<" ">> \o Rep("a", TitleLimit - 2) \o <<"\n", "a", " ">>}

Texts == UNION {TextsOfLen(n) : n \in 0..MaxText} \cup LongTexts

\* ------------------------------------------------------------------ the client: AO3 import

\* everything but the client
backend == <<users, issued, fanworks, reports, rows, reg, login, tog, hist, unbanned,
             comments, tags, nextId, adm, srv, media, post, resp, tick>>

\* an absent text (undefined), told apart from the empty text
UndefinedText == <<"<undefined>">>

\* a || b on texts: the empty and the absent text are falsy
OrText(a, b) == IF a # <<>> /\ a # UndefinedText THEN a ELSE b

\* "Imported Story" (part_001:305)
ImportedStory == <<"I", "m", "p", "o", "r", "t", "e", "d", " ", "S", "t", "o", "r", "y">>

\* previewData === null
NoPreview ==
  [some |-> FALSE, title |-> <<>>, content |-> <<>>, description |-> <<>>, tags |-> <<>>,
   rating |-> "", author |-> "", wordCount |-> 0, chapterCount |-> 0]

\* undefined as the value of a number field of the form, told apart from NaN
NoNumber == 0 - 2

\* the upload form's default values (upload-modal.tsx:54-67)
FormDefaults ==
  [title |-> <<>>, description |-> <<>>, type |-> "artwork", rating |-> "all-ages",
   content |-> <<>>, wordCount |-> NoNumber, chapterCount |-> NoNumber,
   isComplete |-> FALSE, tags |-> <<>>]

\* nothing handed to onImport yet
NoImport ==
  [title |-> <<>>, content |-> <<>>, description |-> <<>>, tags |-> <<>>,
   wordCount |-> 0, chapterCount |-> 0, rating |-> ""]

\* uploadMutation before any submission
NoMutation == [status |-> "idle", variables |-> <<>>]

\* the import component's state (part_001:205-208), the text pasted last and
\* what parseManualContent returns on it, the data handed to onImport last,
\* the upload form, the file selected, the import mode, the type the form
\* was last seen with and the upload mutation (upload-modal.tsx:49-52, 54-69),
\* the handler that ran last, and where handleUrlImport stands
UiInit ==
  [url |-> "", isLoading |-> FALSE, previewData |-> NoPreview, error |-> "",
   pasted |-> <<>>, parsed |-> parseManualContent(<<>>), imported |-> NoImport,
   form |-> FormDefaults, selectedFile |-> NoFile, importMode |-> "manual",
   watchedType |-> "", mutation |-> NoMutation, op |-> "", pc |-> "idle"]

\* the upload area is drawn for an artwork or a comic (upload-modal.tsx:271)
UploadAreaShown(u) == u.watchedType \in {"artwork", "comic"}

\* the Word Count, Chapters and Mark as Complete controls are drawn for a
\* fanfiction entered by hand (upload-modal.tsx:331, 359-421)
ManualFieldsShown(u) == u.watchedType = "fanfiction" /\ u.importMode = "manual"

\* the import component is mounted for a fanfiction in the AO3 import mode
\* (upload-modal.tsx:331, 359-360)
ImportShown(u) == u.watchedType = "fanfiction" /\ u.importMode = "ao3"

\* the callback of form.watch (upload-modal.tsx:167-173), which runs on every
\* change of the form's values: a type that is not empty becomes watchedType
formWatch(u) == IF u.form.type # "" THEN [u EXCEPT !.watchedType = u.form.type] ELSE u

\* a render of the modal: the import component keeps its state while it is
\* mounted, loses it when it is taken off the screen and starts from its
\* initial state (part_001:205-208) when it is mounted again
Render(u) ==
  IF ImportShown(u) THEN u
  ELSE [u EXCEPT !.url = "", !.isLoading = FALSE, !.previewData = NoPreview, !.error = ""]

\* the URLs typed into the field
Urls ==
  {"", "https://archiveofourown.org/works/123",
   "http://www.archiveofourown.org/works/9/chapters/1",
   "https://archiveofourown.org/users/rick", "https://archiveofourown.org/works/",
   "ao3/works/123"}

\* validateAO3Url (part_001:211-214):
\* /^https?:\/\/(www\.)?archiveofourown\.org\/works\/\d+/
validateAO3Url(u) ==
  u \in {"https://archiveofourown.org/works/123",
         "http://www.archiveofourown.org/works/9/chapters/1"}

FetchResolves(u) == "resolves"

\* fetchAO3Work (part_001:232-242): the promise always rejects
fetchAO3Work(u) == "throws"

\* what a resolved fetch would hand to setPreviewData
FetchedWork ==
  [NoPreview EXCEPT !.some = TRUE, !.title = <<"a">>, !.content = <<"a">>,
                    !.rating = "teen", !.author = "rick", !.wordCount = 1,
                    !.chapterCount = 1]

\* onChange of the URL field (part_001:357): setUrl
setUrl(u) ==
  /\ ui.pc = "idle" /\ ImportShown(ui)
  /\ ui' = [ui EXCEPT !.url = u, !.op = "setUrl"]
  /\ UNCHANGED backend

\* handleUrlImport (part_001:266-293) up to the await: an empty or malformed
\* URL sets the error and returns; otherwise loading starts and the error is
\* cleared. The button is disabled while loading (part_001:361).
handleUrlImport ==
  /\ ui.pc = "idle" /\ ImportShown(ui)
  /\ ~ui.isLoading
  /\ ui' = IF ui.url = ""
             THEN [ui EXCEPT !.error = "Please enter an AO3 URL", !.op = "urlImport"]
           ELSE IF ~validateAO3Url(ui.url)
             THEN [ui EXCEPT !.error = "Please enter a valid AO3 work URL (e.g., https://archiveofourown.org/works/12345)",
                             !.op = "urlImport"]
           ELSE [ui EXCEPT !.isLoading = TRUE, !.error = "", !.op = "urlImport",
                           !.pc = "fetching"]
  /\ UNCHANGED backend

\* handleUrlImport after the await: try, catch and finally (part_001:279-292)
handleUrlImportSettle ==
  /\ ui.pc = "fetching"
  /\ ui' = IF fetchAO3Work(ui.url) = "throws"
             THEN [ui EXCEPT !.error = "Unable to automatically import from AO3. Please use manual import instead.",
                             !.isLoading = FALSE, !.pc = "idle"]
           ELSE [ui EXCEPT !.previewData = FetchedWork, !.isLoading = FALSE,
                           !.pc = "idle"]
  /\ UNCHANGED backend

\* handleManualImport (part_001:295-315) on the text in the paste area
handleManualImport(manualContent) ==
  /\ ui.pc = "idle" /\ ImportShown(ui)
  /\ ui' =
       IF Trim(manualContent) = <<>>
       THEN [ui EXCEPT !.error = "Please paste your story content", !.op = "manualImport",
                       !.pasted = manualContent,
                       !.parsed = parseManualContent(manualContent)]
       ELSE LET parsed == parseManualContent(manualContent)
                workData ==
                  [some |-> TRUE,
                   title |-> OrText(parsed.title, ImportedStory),
                   content |-> OrText(parsed.content, manualContent),
                   description |-> parsed.description,
                   tags |-> parsed.tags,
                   rating |-> "all-ages", author |-> "Unknown",
                   wordCount |-> WordCount(manualContent), chapterCount |-> 1]
            IN [ui EXCEPT !.previewData = workData, !.error = "", !.op = "manualImport",
                          !.pasted = manualContent, !.parsed = parsed]
  /\ UNCHANGED backend

\* onChange of the paste area (part_001:379-383): a text that is not blank
\* goes to handleManualImport
onPaste(text) == Trim(text) # <<>> /\ handleManualImport(text)

\* tags.join(", ") of a preview's tag list
JoinTags(list) == IF list = <<>> THEN <<>> ELSE list

\* handleAO3Import (upload-modal.tsx:158-165): the form values set from the
\* imported data
handleAO3Import(form, data) ==
  [form EXCEPT !.title = OrText(data.title, <<>>),
               !.description = OrText(data.description, <<>>),
               !.wordCount = data.wordCount,
               !.chapterCount = data.chapterCount,
               !.isComplete = FALSE,
               !.tags = OrText(data.tags, <<>>)]

\* handleImport (part_001:317-334): hands the preview to onImport, whose
\* form.setValue calls run the form.watch callback, and resets previewData,
\* url and error
handleImport ==
  /\ ui.pc = "idle" /\ ImportShown(ui)
  /\ ui.previewData.some
  /\ LET p == ui.previewData
         data == [title |-> p.title, content |-> p.content,
                  description |-> OrText(p.description, UndefinedText),
                  tags |-> JoinTags(p.tags), wordCount |-> p.wordCount,
                  chapterCount |-> p.chapterCount, rating |-> p.rating]
     IN ui' = Render(formWatch([ui EXCEPT !.form = handleAO3Import(ui.form, data),
                                          !.imported = data, !.previewData = NoPreview,
                                          !.url = "", !.error = "", !.op = "import"]))
  /\ UNCHANGED backend

\* handleFileSelect (upload-modal.tsx:127-137), called from the upload area:
\* a file over 10 MB is refused with a toast, any other becomes the selected
\* file
handleFileSelect(file) ==
  /\ ui.pc = "idle" /\ UploadAreaShown(ui)
  /\ ui' = IF file.big THEN [ui EXCEPT !.op = "fileSelect"]
           ELSE [ui EXCEPT !.selectedFile = file, !.op = "fileSelect"]
  /\ UNCHANGED backend

\* the X button next to the selected file (upload-modal.tsx:292-307), drawn
\* while a file is selected: stopPropagation keeps the click from opening the
\* file dialog, and setSelectedFile(null) clears the selection
clearSelectedFile ==
  /\ ui.pc = "idle" /\ UploadAreaShown(ui)
  /\ ui.selectedFile # NoFile
  /\ ui' = [ui EXCEPT !.selectedFile = NoFile, !.op = "clearFile"]
  /\ UNCHANGED backend

\* field.onChange of a control bound to the form as it is and always drawn:
\* the title, tags and description inputs and the type and rating selects
\* (upload-modal.tsx:186-266, 429-447). The form.watch callback follows, and
\* a type other than fanfiction takes the import component off the screen.
fieldOnChange(name, value) ==
  /\ ui.pc = "idle"
  /\ ui' = Render(formWatch([ui EXCEPT !.form[name] = value, !.op = "fieldChange"]))
  /\ UNCHANGED backend

\* the Manual Entry and Import from AO3 buttons (upload-modal.tsx:335-356),
\* drawn for a fanfiction: setImportMode
setImportMode(mode) ==
  /\ ui.pc = "idle" /\ ui.watchedType = "fanfiction"
  /\ ui' = Render([ui EXCEPT !.importMode = mode, !.op = "importMode"])
  /\ UNCHANGED backend

\* onChange of the Word Count and Chapters inputs (upload-modal.tsx:374, 394):
\* field.onChange(e.target.value ? parseInt(e.target.value) : undefined)
countOnChange(name, value) ==
  /\ ui.pc = "idle" /\ ManualFieldsShown(ui)
  /\ ui' = formWatch([ui EXCEPT !.form[name] = IF value # "" THEN ParseInt(value) ELSE NoNumber,
                                !.op = "countChange"])
  /\ UNCHANGED backend

\* onCheckedChange of the Mark as Complete checkbox (upload-modal.tsx:403-421),
\* drawn with the manual fields of a fanfiction: a click hands field.onChange
\* the opposite of the value shown
onCheckedChange ==
  /\ ui.pc = "idle" /\ ManualFieldsShown(ui)
  /\ ui' = formWatch([ui EXCEPT !.form.isComplete = ~ui.form.isComplete,
                                !.op = "completeChange"])
  /\ UNCHANGED backend

\* uploadSchema (upload-modal.tsx:27-37) on the form values: the title has
\* between 1 and 255 characters, type and rating are in their enumerations,
\* and wordCount and chapterCount are undefined or a number, which NaN is not
\* for z.number()
uploadSchemaOk(form) ==
  /\ Len(form.title) >= 1 /\ Len(form.title) <= 255
  /\ form.type \in {"artwork", "fanfiction", "comic"}
  /\ form.rating \in {"all-ages", "teen", "mature", "explicit"}
  /\ form.wordCount # NaN /\ form.chapterCount # NaN

\* the form's onSubmit (upload-modal.tsx:184, 114-125): the resolver lets
\* valid values through to handleSubmit, which starts the mutation for a
\* logged-in user and only shows a toast otherwise; the button is disabled
\* while the mutation is pending (upload-modal.tsx:458)
handleSubmit(isAuthenticated) ==
  /\ ui.pc = "idle"
  /\ ui.mutation.status # "pending"
  /\ uploadSchemaOk(ui.form)
  /\ ui' = IF ~isAuthenticated THEN [ui EXCEPT !.op = "submit"]
           ELSE [ui EXCEPT !.mutation = [status |-> "pending",
                                         variables |-> [file |-> ui.selectedFile] @@ ui.form],
                           !.op = "submit"]
  /\ UNCHANGED backend

\* onSuccess of uploadMutation (upload-modal.tsx:87-96): the form goes back to
\* its default values, which the form.watch callback sees, and the selected
\* file is cleared
onSuccess ==
  /\ ui.pc = "idle"
  /\ ui.mutation.status = "pending"
  /\ ui' = Render(formWatch([ui EXCEPT !.mutation.status = "success", !.form = FormDefaults,
                                       !.selectedFile = NoFile, !.op = "uploaded"]))
  /\ UNCHANGED backend

\* onError of uploadMutation (upload-modal.tsx:97-111): a toast, the form is kept
onError ==
  /\ ui.pc = "idle"
  /\ ui.mutation.status = "pending"
  /\ ui' = [ui EXCEPT !.mutation.status = "error", !.op = "uploadFailed"]
  /\ UNCHANGED backend

\* the preview's Cancel button (part_001:443-446)
cancelPreview ==
  /\ ui.pc = "idle" /\ ImportShown(ui)
  /\ ui.previewData.some
  /\ ui' = [ui EXCEPT !.previewData = NoPreview, !.error = "", !.op = "cancel"]
  /\ UNCHANGED backend

\* ------------------------------------------------------------------ initial state

IdleLogin == [pc |-> "idle", email |-> "", password |-> "", uid |-> 0, hash |-> <<>>]

\* a database holding an admin, a moderator and a plain user, one fanwork of
\* the plain user and one pending report on it; no request in flight
Init ==
  /\ users = SeedUsers
  /\ issued = {}
  /\ fanworks = (1 :> Fanwork(3, "Pickle", ""))
  /\ reports = (1 :> Report(3))
  /\ rows = [k \in Kinds |-> <<>>]
  /\ reg = [s \in 1..MaxReg |-> IdleReg]
  /\ login = [s \in 1..MaxLogin |-> IdleLogin]
  /\ tog = [s \in 1..MaxTog |-> IdleTog]
  /\ hist = [k \in Kinds |-> <<>>]
  /\ unbanned = {}
  /\ comments = <<>>
  /\ tags = (1 :> {"rick"})
  /\ nextId = [fanworks |-> 2, comments |-> 1]
  /\ srv = ServerUp
  /\ media = <<>>
  /\ ui = UiInit
  /\ post = [s \in 1..MaxPost |-> IdlePost]
  /\ adm = [s \in 1..MaxAdm |-> IdleAdm]
  /\ resp = NoResp
  /\ tick = 0

SpecReg == Init /\ [][RegNext]_vars

\* login against ban / unban: a ban and an unban can be pending at once
AuthEmails == {"mod@r.co", "morty@r.co", "not-an-email"}
AuthPasswords == {"modpw12", "secret1", Undefined}

LoginNext ==
  \/ \E s \in 1..MaxLogin, e \in AuthEmails, p \in AuthPasswords : LoginStart(s, e, p)
  \/ \E s \in 1..MaxLogin : LoginFinish(s)
  \/ \E tok \in Creds \ {NoToken, BadToken}, id \in {2, 3} : Ban(1, tok, id)
  \/ \E tok \in Creds \ {NoToken, BadToken}, id \in {2, 3} : Unban(2, tok, id)
  \/ BanSettle(1)
  \/ UnbanSettle(2)

SpecLogin == Init /\ [][LoginNext]_vars

\* tokens issued by login, ban / unban of the plain user, and the like endpoint
BannedNext ==
  \/ \E s \in 1..MaxLogin, e \in {"mod@r.co", "morty@r.co"} :
       LoginStart(s, e, IF e = "mod@r.co" THEN "modpw12" ELSE "secret1")
  \/ \E s \in 1..MaxLogin : LoginFinish(s)
  \/ \E tok \in Creds \ {NoToken, BadToken} : Ban(1, tok, 3)
  \/ \E tok \in Creds \ {NoToken, BadToken} : Unban(1, tok, 3)
  \/ \E tok \in Creds, f \in DOMAIN fanworks : ToggleStart(1, "like", tok, f)
  \/ ToggleWrite(1)
  \/ BanSettle(1)
  \/ UnbanSettle(1)

SpecBanned == Init /\ [][BannedNext]_vars

\* concurrent like / bookmark requests of one logged-in user
ToggleNext ==
  \/ \E s \in 1..MaxLogin : LoginStart(s, "morty@r.co", "secret1")
  \/ \E s \in 1..MaxLogin : LoginFinish(s)
  \/ \E s \in 1..MaxTog, k \in Kinds, tok \in Creds \ {BadToken}, f \in DOMAIN fanworks :
       ToggleStart(s, k, tok, f)
  \/ \E s \in 1..MaxTog : ToggleWrite(s)

SpecToggle == Init /\ [][ToggleNext]_vars

\* the seeded users' own credentials
SeedLogin == {<<"admin@r.co", "adminpw">>, <<"mod@r.co", "modpw12">>, <<"morty@r.co", "secret1">>}

\* the moderator-gated endpoints with the moderator's and the admin's
\* credential, one request pending at a time, against the admin making the
\* moderator a plain user: before the request arrives or while it is pending
ModNext ==
  \/ \E c \in {<<"admin@r.co", "adminpw">>, <<"mod@r.co", "modpw12">>} : LoginStart(1, c[1], c[2])
  \/ LoginFinish(1)
  \/ \E tok \in Creds \ {NoToken, BadToken} : GetReports(1, tok)
  \/ \E tok \in Creds \ {NoToken, BadToken} : PatchReport(1, tok, 1, "resolved")
  \/ \E tok \in Creds \ {NoToken, BadToken} : Ban(1, tok, 3)
  \/ \E tok \in Creds \ {NoToken, BadToken} : Unban(1, tok, 3)
  \/ \E tok \in Creds \ {NoToken, BadToken} : Hide(1, tok, 1, "spam")
  \/ \E tok \in Creds \ {NoToken, BadToken} : Unhide(1, tok, 1)
  \/ \E tok \in Creds \ {NoToken, BadToken} : DeleteFanwork(1, tok, 1)
  \/ GetReportsSettle(1)
  \/ PatchReportSettle(1)
  \/ BanSettle(1)
  \/ UnbanSettle(1)
  \/ HideSettle(1)
  \/ UnhideSettle(1)
  \/ DeleteFanworkSettle(1)
  \/ \E tok \in {generateToken(1)} \cap Creds : PatchRole(2, tok, 2, "user")
  \/ PatchRoleSettle(2)

SpecMod == Init /\ [][ModNext]_vars

\* the role endpoint with the admin's and the moderator's credential, on the
\* moderator and the plain user; requests pending side by side, so that a
\* requester's own role can change while its request is pending
RoleArgs == {"user", "admin"}

RoleNext ==
  \/ \E c \in {<<"admin@r.co", "adminpw">>, <<"mod@r.co", "modpw12">>} : LoginStart(1, c[1], c[2])
  \/ LoginFinish(1)
  \/ \E s \in 1..MaxAdm, tok \in Creds \ {NoToken, BadToken}, id \in {2, 3}, role \in RoleArgs :
       PatchRole(s, tok, id, role)
  \/ \E s \in 1..MaxAdm : PatchRoleSettle(s)

SpecRole == Init /\ [][RoleNext]_vars

\* the catalogue query against uploads that attach tags
TagParams == {Absent, Str(""), Str("rick"), Str("ghost"), Arr(<<"ghost", "jerry">>)}

ListNext ==
  \/ \E s \in 1..MaxLogin : LoginStart(s, "morty@r.co", "secret1")
  \/ \E s \in 1..MaxLogin : LoginFinish(s)
  \/ \E s \in 1..MaxPost, tok \in Creds \ {NoToken, BadToken}, tg \in {Absent, Arr(<<"beth", "summer">>)} :
       PostFanwork(s, tok, [title |-> "Pickle", hidden |-> FALSE, tags |-> tg], NoFile, FALSE)
  \/ \E s \in 1..MaxPost : PostUpload(s)
  \/ \E s \in 1..MaxPost : PostCreate(s)
  \/ \E s \in 1..MaxPost : PostTags(s)
  \/ \E tok \in Creds \ {BadToken}, tg \in TagParams, a \in {0, 3},
         l \in {Absent, Str("1")} :
       ListFanworks(tok, [tags |-> tg, authorId |-> a, limit |-> l])

SpecList == Init /\ [][ListNext]_vars

\* every route behind authenticateToken or optionalAuth, and two role-gated
\* ones, with no token and with a token that does not verify; three of them
\* with the plain user's token too
Anonymous == {NoToken, BadToken}

GatedNext ==
  \/ \E s \in 1..MaxLogin : LoginStart(s, "morty@r.co", "secret1")
  \/ \E s \in 1..MaxLogin : LoginFinish(s)
  \/ \E tok \in Creds : GetUser(tok)
  \/ \E tok \in Creds :
       ListFanworks(tok, [tags |-> Absent, authorId |-> 0, limit |-> Absent])
  \/ \E tok \in Creds, id \in {"1", "9"} : GetFanwork(tok, id)
  \/ \E s \in 1..MaxPost, tok \in Anonymous :
       PostFanwork(s, tok, [title |-> "Pickle", hidden |-> FALSE, tags |-> Absent], NoFile, FALSE)
  \/ \E tok \in Anonymous :
       ImportAO3(tok, [ao3Url |-> "https://archiveofourown.org/works/123",
                       title |-> Undefined], FALSE)
  \/ \E tok \in Creds, k \in Kinds : ToggleStart(1, k, tok, 1)
  \/ ToggleWrite(1)
  \/ \E tok \in Creds : PostComment(tok, "1", [content |-> "wubba", userId |-> 0])
  \/ \E tok \in Anonymous : PostReport(tok, [reason |-> "spam"])
  \/ \E tok \in Anonymous : VerifyAge(tok, TRUE)
  \/ \E tok \in Anonymous : GetReports(1, tok)
  \/ \E tok \in Anonymous : PatchRole(1, tok, 3, "admin")

SpecGated == Init /\ [][GatedNext]_vars

\* the handlers that read a body, with well-formed and malformed bodies
BodiesNext ==
  \/ \E s \in 1..MaxLogin, c \in {<<"admin@r.co", "adminpw">>, <<"morty@r.co", Undefined>>} :
       LoginStart(s, c[1], c[2])
  \/ \E s \in 1..MaxLogin : LoginFinish(s)
  \/ \E tok \in Creds \ Anonymous, c \in {"wubba", Undefined} :
       PostComment(tok, "1", [content |-> c, userId |-> 0])
  \/ \E tok \in Creds \ Anonymous, r \in {"spam", Undefined} : PostReport(tok, [reason |-> r])
  \/ \E tok \in Creds \ Anonymous, c \in BOOLEAN : VerifyAge(tok, c)
  \/ \E tok \in Creds \ Anonymous, st \in {"resolved", Undefined} : PatchReport(1, tok, 1, st)
  \/ \E tok \in Creds \ Anonymous, role \in {"moderator", "owner"} : PatchRole(1, tok, 3, role)
  \/ PatchReportSettle(1)
  \/ PatchRoleSettle(1)

SpecBodies == Init /\ [][BodiesNext]_vars

\* uploads with every kind of file, with and without a title
UploadNext ==
  \/ \E s \in 1..MaxLogin : LoginStart(s, "morty@r.co", "secret1")
  \/ \E s \in 1..MaxLogin : LoginFinish(s)
  \/ \E s \in 1..MaxPost, tok \in Creds, t \in {"Pickle", Undefined}, file \in Files :
       PostFanwork(s, tok, [title |-> t, hidden |-> FALSE, tags |-> Absent], file, FALSE)
  \/ \E s \in 1..MaxPost : PostUpload(s)
  \/ \E s \in 1..MaxPost : PostCreate(s)

SpecUpload == Init /\ [][UploadNext]_vars

\* uploads with every kind of file, sent with the plain user's token or with
\* one that does not verify, against a moderator who bans the uploader before
\* the request arrives or while its file is on the way
BanUploadNext ==
  \/ \E c \in {<<"mod@r.co", "modpw12">>, <<"morty@r.co", "secret1">>} :
       LoginStart(1, c[1], c[2])
  \/ LoginFinish(1)
  \/ \E tok \in Creds \ Anonymous : Ban(1, tok, 3)
  \/ \E s \in 1..MaxPost, tok \in {BadToken, generateToken(3)} \cap Creds,
         file \in Files :
       PostFanwork(s, tok, [title |-> "Pickle", hidden |-> FALSE, tags |-> Absent], file, FALSE)
  \/ \E s \in 1..MaxPost : PostUpload(s)
  \/ \E s \in 1..MaxPost : PostCreate(s)
  \/ BanSettle(1)

SpecBanUpload == Init /\ [][BanUploadNext]_vars

\* uploads with and without tags, with the tag step failing in the
\* persistence layer, against a moderator who deletes fanworks
TagsNext ==
  \/ \E c \in {<<"mod@r.co", "modpw12">>, <<"morty@r.co", "secret1">>} :
       LoginStart(1, c[1], c[2])
  \/ LoginFinish(1)
  \/ \E s \in 1..MaxPost, tok \in Creds \ Anonymous, tg \in {Absent, Str(""), Str("rick")},
         tagsFail \in BOOLEAN :
       /\ tagsFail => Truthy(tg)
       /\ PostFanwork(s, tok, [title |-> "Pickle", hidden |-> FALSE, tags |-> tg],
                      NoFile, tagsFail)
  \/ \E s \in 1..MaxPost : PostUpload(s)
  \/ \E s \in 1..MaxPost : PostCreate(s)
  \/ \E s \in 1..MaxPost : PostTags(s)
  \/ \E tok \in Creds \ Anonymous, id \in DOMAIN fanworks : DeleteFanwork(1, tok, id)
  \/ DeleteFanworkSettle(1)

SpecTags == Init /\ [][TagsNext]_vars

\* the id-addressed routes, on a stored id and on one that names nothing
MissingNext ==
  \/ LoginStart(1, "admin@r.co", "adminpw")
  \/ LoginFinish(1)
  \/ \E tok \in Creds \ {BadToken}, id \in {"1", "9"} : GetFanwork(tok, id)
  \/ \E tok \in Creds \ Anonymous, id \in {1, 9} : PatchReport(1, tok, id, "resolved")
  \/ \E tok \in Creds \ Anonymous, id \in {3, 9} : Ban(1, tok, id)
  \/ \E tok \in Creds \ Anonymous, id \in {3, 9} : Unban(1, tok, id)
  \/ \E tok \in Creds \ Anonymous, id \in {3, 9} : PatchRole(1, tok, id, "moderator")
  \/ \E tok \in Creds \ Anonymous, id \in {1, 9} : Hide(1, tok, id, "spam")
  \/ \E tok \in Creds \ Anonymous, id \in {1, 9} : Unhide(1, tok, id)
  \/ \E tok \in Creds \ Anonymous : DeleteFanwork(1, tok, 9)
  \/ \E tok \in Creds \ Anonymous, id \in {"1", "9"} :
       PostComment(tok, id, [content |-> "wubba", userId |-> 0])
  \/ PatchReportSettle(1)
  \/ BanSettle(1)
  \/ UnbanSettle(1)
  \/ PatchRoleSettle(1)
  \/ HideSettle(1)
  \/ UnhideSettle(1)
  \/ DeleteFanworkSettle(1)

SpecMissing == Init /\ [][MissingNext]_vars

\* comments by the plain user and the moderator, against hiding and deleting
\* the fanwork and banning the commenter
CommentsNext ==
  \/ \E c \in {<<"mod@r.co", "modpw12">>, <<"morty@r.co", "secret1">>} :
       LoginStart(1, c[1], c[2])
  \/ LoginFinish(1)
  \/ \E tok \in Creds \ {BadToken}, c \in {"wubba", "lubba"}, u \in {0, 2} :
       PostComment(tok, "1", [content |-> c, userId |-> u])
  \/ \E tok \in Creds \ Anonymous : Hide(1, tok, 1, "spam")
  \/ \E tok \in Creds \ Anonymous : Ban(1, tok, 3)
  \/ \E tok \in Creds \ Anonymous : DeleteFanwork(1, tok, 1)
  \/ HideSettle(1)
  \/ BanSettle(1)
  \/ DeleteFanworkSettle(1)

SpecComments == Init /\ [][CommentsNext]_vars

\* reports by the plain user, report updates with the moderator's and the
\* plain user's credential (two can be pending at once) whose body names
\* another reviewer, another moderation route, and the admin making the
\* moderator a plain user
ReportsNext ==
  \/ \E c \in SeedLogin : LoginStart(1, c[1], c[2])
  \/ LoginFinish(1)
  \/ \E tok \in {generateToken(3)} \cap Creds : PostReport(tok, [reason |-> "spam"])
  \/ \E s \in {1, 2}, tok \in {generateToken(2), generateToken(3)} \cap Creds, id \in DOMAIN reports :
       PatchReportBody(s, tok, id, [status |-> "resolved", moderationAction |-> "warned",
                                    reviewedBy |-> 1])
  \/ \E s \in {1, 2} : PatchReportSettle(s)
  \/ \E tok \in {generateToken(2)} \cap Creds : Hide(1, tok, 1, "spam")
  \/ HideSettle(1)
  \/ \E tok \in {generateToken(1)} \cap Creds : PatchRole(2, tok, 2, "user")
  \/ PatchRoleSettle(2)

SpecReports == Init /\ [][ReportsNext]_vars

\* imports with every kind of ao3Url, with and without a title and a
\* description, either of them a string or not, whose insert succeeds or fails
ImportNext ==
  \/ \E s \in 1..MaxLogin : LoginStart(s, "morty@r.co", "secret1")
  \/ \E s \in 1..MaxLogin : LoginFinish(s)
  \/ \E tok \in Creds \ Anonymous, u \in Ao3Urls, t \in {Undefined, Null, "", "Pickle"},
         d \in {Undefined, Null, "", "A brine"} :
       ImportAO3(tok, [ao3Url |-> u, title |-> t, description |-> d], FALSE)
  \/ \E tok \in Creds \ Anonymous, u \in Ao3Urls, t \in {Null, "Pickle"} :
       ImportAO3(tok, [ao3Url |-> u, title |-> t, description |-> Undefined], TRUE)

SpecImport == Init /\ [][ImportNext]_vars

\* uploads and comments by the plain user, reports by the moderator and
\* imports by both, whose bodies name another owner (and, for a comment,
\* another fanwork)
OwnerNext ==
  \/ \E s \in 1..MaxLogin, c \in {<<"mod@r.co", "modpw12">>, <<"morty@r.co", "secret1">>} :
       LoginStart(s, c[1], c[2])
  \/ \E s \in 1..MaxLogin : LoginFinish(s)
  \/ \E s \in 1..MaxPost, tok \in {generateToken(3)} \cap Creds, a \in {1} :
       PostFanwork(s, tok, [title |-> "Pickle", hidden |-> FALSE, tags |-> Absent, authorId |-> a],
                   NoFile, FALSE)
  \/ \E s \in 1..MaxPost : PostUpload(s)
  \/ \E s \in 1..MaxPost : PostCreate(s)
  \/ \E tok \in Creds \ Anonymous :
       ImportAO3(tok, [ao3Url |-> "https://archiveofourown.org/works/123", title |-> Undefined,
                       authorId |-> 1], FALSE)
  \/ \E tok \in {generateToken(3)} \cap Creds :
       PostComment(tok, "1", [content |-> "wubba", userId |-> 1, fanworkId |-> 2])
  \/ \E tok \in {generateToken(2)} \cap Creds :
       PostReport(tok, [reason |-> "spam", reporterId |-> 1])

SpecOwner == Init /\ [][OwnerNext]_vars

\* schema-valid logins for an unknown email, for the plain user while banned
\* and while not, with the right and with a wrong password
RefusalNext ==
  \/ \E s \in 1..MaxLogin, e \in {"mod@r.co", "morty@r.co", "rick@r.co"},
         p \in {"modpw12", "secret1"} :
       LoginStart(s, e, p)
  \/ \E s \in 1..MaxLogin : LoginFinish(s)
  \/ \E tok \in Creds \ Anonymous : Ban(1, tok, 3)
  \/ \E tok \in Creds \ Anonymous : Unban(1, tok, 3)
  \/ BanSettle(1)
  \/ UnbanSettle(1)

SpecRefusal == Init /\ [][RefusalNext]_vars

\* the first paste into the import component, once it is on the screen: every
\* short text and the long ones
PasteNext ==
  /\ ui.pasted = <<>>
  /\ \/ fieldOnChange("type", "fanfiction")
     \/ setImportMode("ao3")
     \/ \E text \in Texts : onPaste(text)

SpecPaste == Init /\ [][PasteNext]_vars

\* the texts pasted while the URL import is exercised
Pastes == {<<"a", "\n", "a">>, <<"a", ".", "\n", "a">>}

\* the import component, put on the screen and taken off it again; a pending
\* fetch settles
ClientNext ==
  \/ \E type \in {"fanfiction", "artwork"} : fieldOnChange("type", type)
  \/ \E mode \in {"manual", "ao3"} : setImportMode(mode)
  \/ \E u \in Urls : setUrl(u)
  \/ handleUrlImport
  \/ handleUrlImportSettle
  \/ \E text \in Pastes : onPaste(text)
  \/ handleImport
  \/ cancelPreview

SpecClient == Init /\ [][ClientNext]_vars /\ WF_vars(handleUrlImportSettle)

\* the values typed or picked in the form's controls
FieldEdits == {<<"type", "fanfiction">>, <<"type", "comic">>, <<"rating", "mature">>}

\* the texts typed into the Word Count and Chapters inputs
CountEdits == {<<"wordCount", "5">>, <<"wordCount", "">>, <<"chapterCount", ".5">>}

\* the upload form: a pasted story is imported, fields are edited, the work
\* is marked complete, a file is selected and removed again, the form is
\* submitted and the upload settles
FormNext ==
  \/ onPaste(<<"a", "\n", "a">>)
  \/ handleImport
  \/ \E e \in FieldEdits : fieldOnChange(e[1], e[2])
  \/ \E mode \in {"manual", "ao3"} : setImportMode(mode)
  \/ \E c \in CountEdits : countOnChange(c[1], c[2])
  \/ onCheckedChange
  \/ \E file \in {File(".png", "image/png", FALSE, FALSE), File(".png", "image/png", TRUE, FALSE)} :
       handleFileSelect(file)
  \/ clearSelectedFile
  \/ \E isAuthenticated \in BOOLEAN : handleSubmit(isAuthenticated)
  \/ onSuccess
  \/ onError

SpecForm == Init /\ [][FormNext]_vars

\* role changes by the admin with roles inside and outside the enumeration
\* and with none, on stored users and on an id that names nobody, against a
\* registration
RolesNext ==
  \/ LoginStart(1, "admin@r.co", "adminpw")
  \/ LoginFinish(1)
  \/ RegisterStart(1, "rick@r.co", "rick", "secret1")
  \/ RegCheckEmail(1)
  \/ RegCheckUsername(1)
  \/ RegHash(1)
  \/ RegCreate(1)
  \/ \E tok \in Creds \ Anonymous, id \in {3, 4, 9},
         role \in {"user", "moderator", "admin", "owner", Undefined} :
       PatchRole(1, tok, id, role)
  \/ PatchRoleSettle(1)

SpecRoles == Init /\ [][RolesNext]_vars

\* the server process: every handler answers, a connection left idle ends by
\* the keep-alive timeout, and the close callback runs once the server has
\* drained
SpecServer ==
  /\ Init /\ [][ServerNext]_vars
  /\ \A c \in 1..MaxConn : WF_vars(Respond(c, FALSE)) /\ WF_vars(EndIdle(c))
  /\ WF_vars(Closed)

\* ================================================================== claims

RegInFlight(s) == reg[s].pc \in {"email", "username", "hash", "create"}

\* C1: a schema-valid registration whose email or username was already stored
\* when it arrived never changes the users table, and its response is 400 with
\* 'Email already registered' or 'Username already taken' and carries no token.
C1_DuplicateRegisterConflict ==
  [][\A s \in 1..MaxReg :
       (RegInFlight(s) /\ reg[s].dup /\ reg'[s] # reg[s]) =>
         /\ users' = users
         /\ issued' = issued
         /\ reg'[s].pc = "idle" =>
              /\ resp'.status = 400
              /\ resp'.msg \in {"Email already registered", "Username already taken"}
              /\ resp'.token = NoToken]_vars

\* a duplicate username (with an unused email) has been refused
C1_Witness ==
  /\ resp.route = "register" /\ resp.val
  /\ resp.status = 400 /\ resp.msg = "Username already taken"

\* C2: when the handler creates the user and the email and username are both
\* unused, the response is 200, exactly one user is added, it has the request's
\* email and username, every other row is untouched, and the token returned is
\* the one issued for the new user's id.
C2_FreshRegisterSucceeds ==
  [][\A s \in 1..MaxReg :
       (reg[s].pc = "create" /\ reg'[s].pc = "idle"
          /\ UserInsertAllowed(users, reg[s].email, reg[s].username)) =>
         /\ resp'.route = "register" /\ resp'.status = 200
         /\ Cardinality(DOMAIN users' \ DOMAIN users) = 1
         /\ \A i \in DOMAIN users : i \in DOMAIN users' /\ users'[i] = users[i]
         /\ \A i \in DOMAIN users' \ DOMAIN users :
              /\ users'[i].email = reg[s].email
              /\ users'[i].username = reg[s].username
              /\ resp'.token = generateToken(i)
              /\ i \in issued']_vars

\* a fresh payload has been registered as user 4 and answered with its token
C2_Witness ==
  /\ resp.route = "register" /\ resp.status = 200 /\ resp.token = generateToken(4)
  /\ 4 \in DOMAIN users /\ users[4].email = "rick@r.co"

UniqueUsers ==
  \A i, j \in DOMAIN users :
    i # j => users[i].email # users[j].email /\ users[i].username # users[j].username

\* C3: no two stored users share an email or a username, and a schema-valid
\* registration that was fresh on arrival and is not answered 200 (it lost a
\* race) is answered 400.
C3_RaceLoserGetsConflict ==
  /\ UniqueUsers
  /\ (resp.route = "register" /\ resp.msg # "Validation error" /\ ~resp.val
        /\ resp.status # 200) => resp.status = 400

\* a response was sent in this step, on one of the given routes
Answered(routes) == tick' # tick /\ resp'.route \in routes

\* the login was answered by the step in which it arrived (no await in between)
LoginStartAnswered == Answered({"login"}) /\ login' = login

LoginEnters(s) == login[s].pc = "idle" /\ login'[s].pc = "compare"

LoginFinishes(s) == login[s].pc = "compare" /\ login'[s].pc = "idle"

\* C4 (as amended): a schema-valid login for a user whose isBanned flag is set
\* when the handler looks the user up, or with a password that does not match,
\* is answered 401 without a token; a body that fails loginSchema is answered
\* 400 without a token.
C4_LoginRejects ==
  [][/\ LoginStartAnswered =>
          LET e == resp'.arg[1]
              p == resp'.arg[2]
              u == getUserByEmail(users, e)
          IN /\ resp'.token = NoToken /\ issued' = issued
             /\ (loginSchemaOk(e, p) /\ u # 0 /\ users[u].isBanned) => resp'.status = 401
             /\ ~loginSchemaOk(e, p) => resp'.status = 400
     /\ \A s \in 1..MaxLogin :
          /\ LoginEnters(s) => ~users[login'[s].uid].isBanned
          /\ (LoginFinishes(s)
                /\ ~comparePassword(login[s].password, users[login[s].uid].passwordHash)) =>
               /\ resp'.route = "login" /\ resp'.status = 401
               /\ resp'.token = NoToken /\ issued' = issued]_vars

\* the banned plain user has been refused with the right password
C4_Witness ==
  /\ users[3].isBanned
  /\ resp.route = "login" /\ resp.arg = <<"morty@r.co", "secret1">>
  /\ resp.status = 401 /\ resp.token = NoToken

\* C4 (as stated): a login for a banned user is answered 401 whatever the other
\* body field holds, and so is a login with a wrong password.
C4_Original ==
  [][/\ LoginStartAnswered =>
          LET u == getUserByEmail(users, resp'.arg[1])
          IN (u # 0 /\ users[u].isBanned) => (resp'.status = 401 /\ resp'.token = NoToken)
     /\ \A s \in 1..MaxLogin :
          (LoginFinishes(s)
             /\ ~comparePassword(login[s].password, users[login[s].uid].passwordHash)) =>
            (resp'.status = 401 /\ resp'.token = NoToken)]_vars

\* C5: the isBanned flag of a user is set exactly by a completed ban and cleared
\* exactly by a completed unban; while it is set, every schema-valid login for
\* that user is answered 401 at the lookup, whatever the password; while it is
\* clear, a schema-valid login for a stored user is not refused at the lookup
\* and, with the correct password, is answered 200 with a token for that user.
C5_BanGatesLogin ==
  [][/\ (Answered({"ban"}) /\ resp'.status = 200 /\ resp'.target \in DOMAIN users) =>
          users'[resp'.target].isBanned
     /\ (Answered({"unban"}) /\ resp'.status = 200 /\ resp'.target \in DOMAIN users) =>
          ~users'[resp'.target].isBanned
     /\ \A u \in DOMAIN users :
          users'[u].isBanned # users[u].isBanned =>
            /\ Answered({IF users'[u].isBanned THEN "ban" ELSE "unban"})
            /\ resp'.target = u /\ resp'.status = 200
     /\ LoginStartAnswered =>
          LET e == resp'.arg[1]
              p == resp'.arg[2]
              u == getUserByEmail(users, e)
          IN (loginSchemaOk(e, p) /\ u # 0) =>
               (users[u].isBanned /\ resp'.status = 401 /\ resp'.token = NoToken)
     /\ \A s \in 1..MaxLogin :
          /\ LoginEnters(s) => ~users[login'[s].uid].isBanned
          /\ (LoginFinishes(s)
                /\ comparePassword(login[s].password, users[login[s].uid].passwordHash)) =>
               /\ resp'.route = "login" /\ resp'.status = 200
               /\ resp'.token = generateToken(login[s].uid)
               /\ login[s].uid \in issued']_vars

\* the plain user was banned, unbanned, and has logged in again
C5_Witness ==
  /\ 3 \in unbanned /\ ~users[3].isBanned
  /\ resp.route = "login" /\ resp.status = 200 /\ resp.token = generateToken(3)

TogEnters(s) == tog[s].pc = "idle" /\ tog'[s].pc = "write"

TogFinishes(s) == tog[s].pc = "write" /\ tog'[s].pc = "idle"

\* C6: a like / bookmark request carrying a token issued to a user whose
\* isBanned flag is set is answered 401 by the middleware: the handler does not
\* run and no table changes.
C6_BannedTokenRejected ==
  [][/\ (Answered(Kinds) /\ tog' = tog) =>
          LET u == verifyToken(resp'.tok)
          IN (u \in issued /\ u \in DOMAIN users /\ users[u].isBanned) =>
               (resp'.status = 401 /\ db' = db)
     /\ \A s \in 1..MaxTog :
          TogEnters(s) =>
            ~(verifyToken(tog'[s].tok) \in DOMAIN users
                /\ users[verifyToken(tog'[s].tok)].isBanned)]_vars

\* C7: when a like (bookmark) request completes with no other request on its
\* pair in flight, and the request on that pair completed before it ran alone
\* too, the row exists afterwards exactly if it existed before the earlier
\* request, both are answered 200, and the two responses report opposite values.
C7_DoubleToggleRestores ==
  [][\A s \in 1..MaxTog :
       LET r == tog[s]
           pair == <<r.uid, r.fid>>
           h == HistOf(r.kind, pair)
       IN (TogFinishes(s) /\ r.solo /\ h.n >= 1) =>
            /\ resp'.route = r.kind /\ resp'.status = 200
            /\ (RowCount(rows', r.kind, pair) > 0) = h.pre
            /\ resp'.val = ~h.res]_vars

\* like then unlike, one after the other: the row is gone again
C7_Witness ==
  /\ HistOf("like", <<3, 1>>).n = 2
  /\ HistOf("like", <<3, 1>>).pre /\ ~HistOf("like", <<3, 1>>).res
  /\ RowCount(rows, "like", <<3, 1>>) = 0
  /\ resp.route = "like" /\ resp.status = 200 /\ ~resp.val

\* C8: there is at most one like row and at most one bookmark row per
\* (userId, fanworkId) pair.
C8_AtMostOneRowPerPair ==
  \A k \in Kinds : \A pair \in DOMAIN rows[k] : rows[k][pair] <= 1

\* two like requests raced: one inserted the row, the other's INSERT was refused
C8_Witness ==
  /\ resp.route = "like" /\ resp.status = 500
  /\ RowCount(rows, "like", <<3, 1>>) = 1

\* the identity a request's credential stands for: the stored user of the
\* id it verifies to
Actor(tok) ==
  LET u == verifyToken(tok) IN
  IF u \in DOMAIN users THEN u ELSE 0

\* slot s takes in a request that has passed its gate
AdmEnters(s) == adm[s].pc = "idle" /\ adm'[s].pc = "await"

\* the storage call of the request in slot s settles
AdmSettles(s) == adm[s].pc = "await" /\ adm'[s].pc = "idle"

\* the status of a role-gated request that is carried out
Done(route) == IF route = "fanworks.delete" THEN 204 ELSE 200

\* C9: a request to a moderator-only endpoint that arrives with the
\* credential of a plain user is answered 403 on arrival, changes no table and
\* starts no storage call; one that arrives with the credential of a moderator
\* or an admin is taken in, and is answered 200 (204 for the delete) when its
\* storage call settles, whatever has become of the requester's role by then;
\* and a table changes only in a step in which the storage call of a request
\* taken in settles.
C9_ModeratorGate ==
  [][/\ (Answered(ModeratorRoutes) /\ adm' = adm) =>
          LET u == Actor(resp'.tok)
          IN /\ db' = db
             /\ resp'.status = (IF u = 0 THEN 401 ELSE 403)
             /\ u # 0 => users[u].role = "user"
     /\ \A s \in 1..MaxAdm :
          /\ AdmEnters(s) =>
               LET u == Actor(adm'[s].tok)
               IN /\ u # 0 /\ users[u].role \in {"moderator", "admin"}
                  /\ adm'[s].by = u
                  /\ db' = db /\ tick' = tick
          /\ (AdmSettles(s) /\ adm[s].route \in ModeratorRoutes) =>
               /\ Answered({adm[s].route})
               /\ resp'.tok = adm[s].tok /\ resp'.target = adm[s].target
               /\ resp'.status = Done(adm[s].route)
     /\ db' # db => \E s \in 1..MaxAdm : AdmSettles(s)]_vars

\* the moderator's ban request was taken in, the admin then made the moderator
\* a plain user, and the unban request that user sent next was refused while
\* the ban was still on its way
C9_Witness ==
  /\ resp.route = "unban" /\ resp.tok = generateToken(2) /\ resp.status = 403
  /\ users[2].role = "user"
  /\ adm[1].pc = "await" /\ adm[1].route = "ban" /\ adm[1].tok = generateToken(2)

\* C10: a role request that arrives with the credential of a plain user or a
\* moderator is answered 403 on arrival, changes no user and starts no storage
\* call; a request is taken in only when it arrives with the credential of an
\* admin; and a user's role changes only in a step in which the storage call
\* of a role request taken in settles and the request is answered 200.
C10_AdminGate ==
  [][/\ (Answered({"role"}) /\ adm' = adm) =>
          LET u == Actor(resp'.tok)
          IN /\ users' = users
             /\ (u # 0 /\ users[u].role \in {"user", "moderator"}) => resp'.status = 403
             /\ resp'.status = 403 => (u # 0 /\ users[u].role \in {"user", "moderator"})
     /\ \A s \in 1..MaxAdm :
          (AdmEnters(s) /\ adm'[s].route = "role") =>
             LET u == Actor(adm'[s].tok)
             IN u # 0 /\ users[u].role = "admin" /\ users' = users /\ tick' = tick
     /\ (\E i \in DOMAIN users : users'[i].role # users[i].role) =>
          \E s \in 1..MaxAdm :
            /\ AdmSettles(s) /\ adm[s].route = "role"
            /\ Answered({"role"}) /\ resp'.status = 200
            /\ resp'.tok = adm[s].tok /\ resp'.target = adm[s].target]_vars

\* the moderator, made an admin, sent a role request that was taken in; the
\* admin then made that user a plain user, whose next request, for the admin
\* role, was refused while the earlier one was still on its way
C10_Witness ==
  /\ resp.route = "role" /\ resp.tok = generateToken(2) /\ resp.arg = <<"admin">>
  /\ resp.status = 403 /\ users[2].role = "user"
  /\ \E s \in 1..MaxAdm : adm[s].pc = "await" /\ adm[s].tok = generateToken(2)

\* the query a list response answers
QueryOf(r) == [tags |-> r.arg[1], authorId |-> r.target, limit |-> r.arg[2]]

\* no stored fanwork carries the tag
Uncarried(name) == \A i \in DOMAIN tags : name \notin tags[i]

\* C12: a catalogue query with no tags parameter, or an empty one, is answered
\* as the query with the same other parameters and no tags parameter is; a
\* query answered 200 whose tags parameter names only tags that no fanwork
\* carries returns the empty list.
C12_EmptyAndUnknownTags ==
  [][Answered({"fanworks.list"}) =>
       LET q == QueryOf(resp')
           o == ListOutcome(fanworks, tags, [q EXCEPT !.tags = Absent])
       IN /\ q.tags \in {Absent, Str("")} =>
               (resp'.status = o.status /\ resp'.val = o.val)
          /\ (q.tags \notin {Absent, Str("")} /\ resp'.status = 200
                /\ \A i \in 1..Len(q.tags.v) : Uncarried(q.tags.v[i])) =>
               resp'.val = <<>>]_vars

\* an empty tags parameter returned both stored fanworks
C12_Witness ==
  /\ resp.route = "fanworks.list" /\ resp.arg[1] = Str("") /\ resp.status = 200
  /\ resp.val = <<1, 2>>

\* the endpoints that demand a credential: a user's, a moderator's, an admin's
CredentialEndpoints ==
  {"auth.user", "verify-age", "fanworks.create", "fanworks.import", "like", "bookmark",
   "comments.create", "reports.create"}
  \cup {"reports.list", "reports.update", "ban", "unban", "hide", "unhide", "fanworks.delete"}
  \cup {"role"}

\* C13: a request to a route behind the authenticating middleware (alone or
\* under a role gate) that carries no token, or one that does not verify, is
\* answered 401, starts no handler and changes no table; the same request to
\* an optional-auth route is answered by the handler: the catalogue with 200,
\* a fanwork with 200 if it is stored and 404 otherwise.
C13_NoTokenNoHandler ==
  [][/\ (Answered(CredentialEndpoints) /\ verifyToken(resp'.tok) = 0) =>
          (resp'.status = 401 /\ db' = db /\ tog' = tog /\ nextId' = nextId
             /\ post' = post /\ adm' = adm /\ media' = media)
     /\ \A s \in 1..MaxTog : TogEnters(s) => verifyToken(tog'[s].tok) # 0
     /\ \A s \in 1..MaxPost :
          (post[s].pc = "idle" /\ post'[s].pc # "idle") => verifyToken(post'[s].tok) # 0
     /\ (Answered({"fanworks.list", "fanworks.get"}) /\ verifyToken(resp'.tok) = 0) =>
          resp'.status = (IF resp'.route = "fanworks.get" /\ resp'.target \notin DOMAIN fanworks
                          THEN 404 ELSE 200)]_vars

\* a comment sent with a token that does not verify was refused
C13_Witness ==
  /\ resp.route = "comments.create" /\ resp.tok = BadToken /\ resp.status = 401
  /\ comments = <<>>

\* the body of the answered request does not fit the shape its handler reads:
\* a required field is absent or not a string, or is outside its enumeration
BodyMismatch(r) ==
  CASE r.route = "login" -> ~loginSchemaOk(r.arg[1], r.arg[2])
    [] r.route = "comments.create" -> r.arg[1].content = Undefined
    [] r.route = "reports.create" -> r.arg[1].reason = Undefined
    [] r.route = "reports.update" -> r.arg[1] = Undefined
    [] r.route = "role" -> r.arg[1] \notin {"user", "moderator", "admin"}
    [] r.route = "verify-age" -> ~r.arg[1]
    [] OTHER -> FALSE

\* C14: a request that passes its route's middleware and whose body does not
\* fit is answered 400 'Validation error' and changes no table; this includes
\* the report update, the role change and verify-age.
C14_EveryBodyValidated ==
  [][(Answered({"login", "comments.create", "reports.create", "reports.update", "role",
                "verify-age"})
        /\ resp'.status \notin {401, 403} /\ BodyMismatch(resp')) =>
       (resp'.status = 400 /\ resp'.msg = "Validation error" /\ db' = db)]_vars

\* C15: every response carries one of the mapped statuses, and a 500 answer
\* to an upload does not carry the text of the error that the upload raised.
C15_NoErrorUnmapped ==
  /\ resp.status \in {0, 200, 201, 204, 400, 401, 403, 404, 500}
  /\ (resp.route = "fanworks.create" /\ resp.status = 500) =>
       resp.msg # uploadSingle(resp.arg[2]).message

\* C19: when POST /api/fanworks has stored the fanwork and the tag step then
\* fails, the step in which it fails leaves the fanworks table as it is and
\* the request is answered 201.
C19_TagFailureTolerated ==
  [][\A s \in 1..MaxPost :
       (post[s].pc = "tags" /\ post[s].tagsFail /\ post'[s].pc = "idle") =>
         /\ fanworks' = fanworks
         /\ Answered({"fanworks.create"}) /\ resp'.status = 201]_vars

\* the answered request addressed an entity that is not stored
MissingTarget(r) ==
  CASE r.route \in {"fanworks.get", "comments.create", "hide", "unhide", "fanworks.delete"} ->
         r.target \notin DOMAIN fanworks
    [] r.route \in {"ban", "unban", "role"} -> r.target \notin DOMAIN users
    [] r.route = "reports.update" -> r.target \notin DOMAIN reports
    [] OTHER -> FALSE

\* C16: a request that passes its route's middleware and addresses an entity
\* that is not stored is answered 404 and changes no table, on
\* GET /api/fanworks/:id and on the id-addressed mutating routes alike.
C16_MissingEntityNotFound ==
  [][(Answered({"fanworks.get", "comments.create", "hide", "unhide", "fanworks.delete",
                "ban", "unban", "role", "reports.update"})
        /\ resp'.status \notin {401, 403} /\ MissingTarget(resp')) =>
       (resp'.status = 404 /\ db' = db)]_vars

\* C20: a stored comment keeps its content, userId and fanworkId in every
\* step; a comment leaves the table only when its fanwork is deleted; and a
\* comment request answered 201 adds exactly one row, made of the body's
\* content, the requester's id and the addressed fanwork, and touches no other.
C20_CommentsImmutable ==
  [][/\ \A c \in DOMAIN comments :
          IF c \in DOMAIN comments' THEN comments'[c] = comments[c]
          ELSE Answered({"fanworks.delete"}) /\ resp'.target = comments[c].fanworkId
     /\ DOMAIN comments' # DOMAIN comments \cap DOMAIN comments' =>
          (Answered({"comments.create"}) /\ resp'.status = 201)
     /\ (Answered({"comments.create"}) /\ resp'.status = 201) =>
          /\ DOMAIN comments' = DOMAIN comments \cup {resp'.val[1]}
          /\ resp'.val[1] \notin DOMAIN comments
          /\ comments'[resp'.val[1]] =
               [content |-> resp'.arg[1].content, userId |-> Actor(resp'.tok),
                fanworkId |-> resp'.target]]_vars

\* two comments on the same fanwork; the first still reads as it was written
C20_Witness ==
  /\ resp.route = "comments.create" /\ resp.status = 201 /\ resp.val = <<2>>
  /\ DOMAIN comments = {1, 2}
  /\ comments[1] = [content |-> "wubba", userId |-> 3, fanworkId |-> 1]
  /\ comments[2] = [content |-> "lubba", userId |-> 2, fanworkId |-> 1]

\* C17: once server.close was called no free connection slot is taken again;
\* the server ends no connection that has a request in flight; the process
\* exits, with code 0, only in a step taken after the call when every
\* connection has ended, each request that was in flight at the call having
\* been answered or abandoned by its client; and from any state after the
\* call in which every connection has ended, the process eventually exits.
C17_GracefulShutdown ==
  /\ [][/\ srv.closing =>
             \A c \in 1..MaxConn : (srv.conn[c] = "free" => srv'.conn[c] = "free")
        /\ srv'.exit # srv.exit =>
             /\ srv'.exit = "0" /\ srv.closing
             /\ \A c \in 1..MaxConn : srv.conn[c] = "free"
             /\ \A c \in srv.atCall : c \in srv.served \/ c \in srv.abandoned
        /\ \A c \in srv.owed :
             c \notin srv'.owed =>
               /\ srv.conn[c] = "busy"
               /\ c \in srv'.served \/ c \in srv'.abandoned
        /\ srv'.served \cap srv'.abandoned = {}]_vars
  /\ ((srv.closing /\ \A c \in 1..MaxConn : srv.conn[c] = "free") ~> srv.exit = "0")

\* two requests were in flight at the signal; one was answered, the client of
\* the other ended its connection, and the process has exited with code 0
C17_Witness ==
  /\ srv.exit = "0" /\ ~srv.listening
  /\ srv.atCall = 1..2 /\ srv.served = {2} /\ srv.abandoned = {1}

\* the first half of C17 as stated: no new connection is accepted after the
\* signal, and the process exits, with code 0, only when every connection has
\* ended and every request in flight at the signal has received its response
C17_OriginalResponses ==
  [][/\ srv.closing =>
          \A c \in 1..MaxConn : (srv.conn[c] = "free" => srv'.conn[c] = "free")
     /\ srv'.exit # srv.exit =>
          /\ srv'.exit = "0" /\ srv.closing
          /\ \A c \in 1..MaxConn : srv.conn[c] = "free"
          /\ \A c \in srv.atCall : c \in srv.served]_vars

\* the second half of C17 as stated: from any state after the signal in which
\* no request is in flight, the process eventually exits
C17_OriginalLiveness ==
  (srv.closing /\ \A c \in 1..MaxConn : srv.conn[c] # "busy") ~> srv.exit = "0"

\* C17 as stated: every request in flight at the signal receives its response
\* before the process exits with code 0, and once the requests in flight have
\* finished the process eventually exits
C17_Original == C17_OriginalResponses /\ C17_OriginalLiveness

PingFailed(log) == log \in {"Anti-sleep ping failed with status", "Anti-sleep ping error"}

\* C18: a run of the ping changes nothing of the server but the ping's own
\* log: the process keeps running, the socket keeps (or keeps not) listening,
\* the connections are untouched; and after a failed run the next run is
\* possible as long as the process lives.
C18_PingFailureIgnored ==
  /\ [][srv'.pings # srv.pings =>
          [srv' EXCEPT !.pings = 0, !.log = "", !.prev = ""] =
            [srv EXCEPT !.pings = 0, !.log = "", !.prev = ""]]_vars
  /\ []((Running /\ PingFailed(srv.log) /\ srv.pings < MaxPing) => ENABLED Ping("ok"))

\* a ping failed on a network error and the next one ran and succeeded
C18_Witness ==
  /\ srv.prev = "Anti-sleep ping error" /\ srv.log = "Anti-sleep ping successful"
  /\ Running /\ srv.listening

ReviewFields(r) == <<r.status, r.moderationAction, r.reviewedBy, r.reviewedAt>>

\* C21: a report enters the table only in a step that answers 201 to
\* POST /api/reports; a report update is taken in only when it arrives with
\* the credential of a moderator or an admin; the status, moderationAction,
\* reviewedBy and reviewedAt of a stored report change only in a step in which
\* the storage call of an update of it taken in settles and is answered 200;
\* and after such an update of a stored report its reviewedBy is the id of
\* that credential, whatever the body says.
C21_ReportsModeratorOnly ==
  [][/\ \A i \in DOMAIN reports :
          /\ i \in DOMAIN reports'
          /\ reports'[i].reporterId = reports[i].reporterId
          /\ ReviewFields(reports'[i]) # ReviewFields(reports[i]) =>
               \E s \in 1..MaxAdm :
                 /\ AdmSettles(s) /\ adm[s].route = "reports.update" /\ adm[s].target = i
                 /\ Answered({"reports.update"}) /\ resp'.status = 200
                 /\ resp'.tok = adm[s].tok /\ resp'.target = i
     /\ \A s \in 1..MaxAdm :
          (AdmEnters(s) /\ adm'[s].route = "reports.update") =>
             LET u == Actor(adm'[s].tok)
             IN /\ u # 0 /\ users[u].role \in {"moderator", "admin"}
                /\ reports' = reports
     /\ (Answered({"reports.update"}) /\ adm' = adm) =>
          (resp'.status \in {401, 403} /\ reports' = reports)
     /\ DOMAIN reports' # DOMAIN reports =>
          (Answered({"reports.create"}) /\ resp'.status = 201)
     /\ (Answered({"reports.update"}) /\ resp'.status = 200
           /\ resp'.target \in DOMAIN reports) =>
          /\ reports'[resp'.target].reviewedBy = Actor(resp'.tok)
          /\ reports'[resp'.target].reviewedAt = 1
          /\ reports'[resp'.target].status = resp'.arg[1]
          /\ reports'[resp'.target].moderationAction = resp'.arg[2]]_vars

\* the plain user's report was resolved by the moderator, whose body named the
\* admin as the reviewer and whom the admin made a plain user while the update
\* was on its way
C21_Witness ==
  /\ resp.route = "reports.update" /\ resp.tok = generateToken(2) /\ resp.status = 200
  /\ resp.target = 2 /\ resp.arg[3] = 1 /\ 2 \in DOMAIN reports
  /\ reports[2].reporterId = 3 /\ reports[2].status = "resolved" /\ reports[2].reviewedBy = 2
  /\ users[2].role = "user"

\* C27: a step that answers 400 'Validation error' writes to no table and
\* stores no file, on POST /api/fanworks with an acceptable file too.
C27_ValidationErrorNoEffect ==
  [][(tick' # tick /\ resp'.status = 400 /\ resp'.msg = "Validation error") =>
       (db' = db /\ nextId' = nextId /\ media' = media)]_vars

\* the strings that hold one of the words jpeg, jpg, png, gif, pdf, txt, doc,
\* docx, among the extensions and MIME types of the files sent
MatchesAllowedList(str) == str \in {".png", ".pngx", ".pdf", ".txt", "image/png", "application/pdf"}

\* the step stores this file and nothing else: the file's extension and MIME
\* type both match the allowed pattern and its size is within 10 MB
StoresFile(file) ==
  /\ file # NoFile /\ media' = Append(media, file)
  /\ MatchesAllowedList(file.ext) /\ MatchesAllowedList(file.mime)
  /\ ~file.big

\* C28: a POST /api/fanworks that arrives without a valid credential is
\* answered 401 on arrival, stores nothing and never reaches the upload
\* middleware; a request reaches it only by arriving with a valid credential;
\* and the media store changes only when the upload middleware of such a
\* request ends, and only by the request's file, whose extension and MIME type
\* both match the allowed pattern and whose size is within 10 MB.
C28_AuthBeforeUpload ==
  [][/\ media' # media =>
          \E s \in 1..MaxPost :
            /\ post[s].pc = "upload" /\ post'[s].pc # "upload"
            /\ StoresFile(post[s].file)
     /\ \A s \in 1..MaxPost :
          /\ (post[s].pc = "idle" /\ post'[s].pc # "idle") =>
               (post'[s].pc = "upload" /\ Actor(post'[s].tok) # 0 /\ media' = media)
          /\ (post[s].pc # "upload" /\ post'[s].pc = "upload") => post[s].pc = "idle"
     /\ (Answered({"fanworks.create"}) /\ post' = post) =>
          (Actor(resp'.tok) = 0 /\ resp'.status = 401 /\ media' = media /\ db' = db)]_vars

\* a request with a token that does not verify and a well-formed image was
\* refused, and the store holds only the image an admitted request sent
C28_Witness ==
  /\ resp.route = "fanworks.create" /\ resp.tok = BadToken /\ resp.status = 401
  /\ resp.arg[2] = File(".png", "image/png", FALSE, FALSE)
  /\ media = <<File(".png", "image/png", FALSE, FALSE)>>

\* the submitted ao3Url holds a segment /works/<digits>
HasWorksSegment(u) ==
  u \in {"https://archiveofourown.org/works/123",
         "https://archiveofourown.org/works/123/chapters/456", "ao3/works/123"}

\* the submitted ao3Url is a string in URL format
UrlFormat(u) ==
  u \in {"https://archiveofourown.org/works/123", "https://archiveofourown.org/users/rick",
         "https://archiveofourown.org/works/123/chapters/456"}

\* the step created exactly one fanwork, as the import of the answered request
\* describes it
ImportedOne ==
  LET b == resp'.arg[1]
      new == DOMAIN fanworks' \ DOMAIN fanworks
  IN /\ resp'.status = 201
     /\ Cardinality(new) = 1
     /\ \A i \in DOMAIN fanworks : i \in DOMAIN fanworks' /\ fanworks'[i] = fanworks[i]
     /\ \A i \in new :
          /\ fanworks'[i].type = "fanfiction" /\ fanworks'[i].rating = "teen"
          /\ fanworks'[i].authorId = Actor(resp'.tok)
          /\ fanworks'[i].ao3WorkId = "123"
          /\ fanworks'[i].title =
               (IF b.title \in {Undefined, ""} THEN "Imported from AO3 Work 123" ELSE b.title)
          /\ fanworks'[i].description =
               (IF b.description \in {Undefined, ""} THEN "Imported from Archive of Our Own"
                ELSE b.description)

\* the step answered 400 with the given message and created nothing
ImportRefused(msg) == resp'.status = 400 /\ resp'.msg = msg /\ fanworks' = fanworks

\* the step answered 500 'Failed to import from AO3' and created nothing
ImportFailed ==
  resp'.status = 500 /\ resp'.msg = "Failed to import from AO3" /\ fanworks' = fanworks

\* the body's title or description is present and is not a string
NonStringText(b) == b.title = Null \/ b.description = Null

\* C24 (as amended): an authenticated import whose ao3Url is not a string in
\* URL format, or whose title or description is present and is not a string,
\* is answered 400 'Validation error' and creates nothing; otherwise one whose
\* ao3Url holds no /works/<digits> segment is answered 400 'Invalid AO3 URL
\* format' and creates nothing; otherwise one whose insert the persistence
\* layer fails is answered 500 'Failed to import from AO3' and creates
\* nothing; otherwise exactly one fanwork is created, of type fanfiction and
\* rating teen, by the requester, with the first digit run after /works/ as
\* ao3WorkId, and with the request's title and description when non-empty and
\* the fixed defaults otherwise.
C24_ImportCreatesOne ==
  [][(Answered({"fanworks.import"}) /\ Actor(resp'.tok) # 0) =>
       LET b == resp'.arg[1]
       IN IF ~UrlFormat(b.ao3Url) \/ NonStringText(b) THEN ImportRefused("Validation error")
          ELSE IF ~HasWorksSegment(b.ao3Url) THEN ImportRefused("Invalid AO3 URL format")
          ELSE IF resp'.arg[2] THEN ImportFailed
          ELSE ImportedOne]_vars

\* a chapter URL was imported with no title: the work id is the first digit
\* run, the title the default
C24_Witness ==
  /\ resp.route = "fanworks.import" /\ resp.status = 201
  /\ resp.arg[1].ao3Url = "https://archiveofourown.org/works/123/chapters/456"
  /\ resp.arg[1].title = "" /\ resp.arg[1].description = "A brine"
  /\ fanworks[resp.val[1]].ao3WorkId = "123"
  /\ fanworks[resp.val[1]].title = "Imported from AO3 Work 123"
  /\ fanworks[resp.val[1]].description = "A brine"

\* C24 (as stated): an authenticated import whose ao3Url holds no
\* /works/<digits> segment is answered 400 'Invalid AO3 URL format' and
\* creates nothing; every other one creates exactly one fanwork.
C24_Original ==
  [][(Answered({"fanworks.import"}) /\ Actor(resp'.tok) # 0) =>
       IF ~HasWorksSegment(resp'.arg[1].ao3Url) THEN ImportRefused("Invalid AO3 URL format")
       ELSE ImportedOne]_vars

\* C25: a fanwork enters the table only by an import or by an upload in
\* flight, a comment only by a comment request, a report only by a report
\* request, each admitted with a valid credential; the new row's authorId,
\* userId or reporterId is the id of that credential and a new comment's
\* fanworkId is the id of the path, whatever the body names.
C25_OwnerIsRequester ==
  [][/\ \A i \in DOMAIN fanworks' \ DOMAIN fanworks :
          \/ /\ Answered({"fanworks.import"})
             /\ Actor(resp'.tok) # 0 /\ fanworks'[i].authorId = Actor(resp'.tok)
          \/ \E s \in 1..MaxPost :
               /\ post[s].pc = "create" /\ post'[s].pc # "create"
               /\ verifyToken(post[s].tok) # 0
               /\ fanworks'[i].authorId = verifyToken(post[s].tok)
     /\ \A s \in 1..MaxPost :
          (post[s].pc = "idle" /\ post'[s].pc # "idle") => Actor(post'[s].tok) # 0
     /\ \A c \in DOMAIN comments' \ DOMAIN comments :
          /\ Answered({"comments.create"})
          /\ Actor(resp'.tok) # 0 /\ comments'[c].userId = Actor(resp'.tok)
          /\ comments'[c].fanworkId = resp'.target
     /\ \A r \in DOMAIN reports' \ DOMAIN reports :
          /\ Answered({"reports.create"})
          /\ Actor(resp'.tok) # 0 /\ reports'[r].reporterId = Actor(resp'.tok)]_vars

\* the plain user uploaded with authorId 1 in the body and commented with
\* userId 1 and fanworkId 2 in the body on fanwork 1; the moderator reported
\* with reporterId 1 in the body: each row carries its requester
C25_Witness ==
  /\ resp.route = "reports.create" /\ resp.tok = generateToken(2) /\ resp.status = 201
  /\ resp.arg[1].reporterId = 1 /\ reports[2].reporterId = 2
  /\ 2 \in DOMAIN fanworks /\ fanworks[2].authorId = 3 /\ fanworks[2].ao3WorkId = ""
  /\ 1 \in DOMAIN comments /\ comments[1] = [content |-> "wubba", userId |-> 3, fanworkId |-> 1]

\* what a refused login shows the client: status, message, token
Shown(r) == <<r.status, r.msg, r.token>>

\* C26: a schema-valid login that finds no user for the email, or finds the
\* user banned (whatever the password), or finds the password wrong, is
\* answered with one and the same response: 401 'Invalid credentials' and no
\* token.
C26_LoginRefusalsAlike ==
  [][/\ LoginStartAnswered =>
          LET e == resp'.arg[1]
              p == resp'.arg[2]
              u == getUserByEmail(users, e)
          IN (loginSchemaOk(e, p) /\ (u = 0 \/ users[u].isBanned)) =>
               Shown(resp') = <<401, "Invalid credentials", NoToken>>
     /\ \A s \in 1..MaxLogin :
          (LoginFinishes(s)
             /\ ~comparePassword(login[s].password, users[login[s].uid].passwordHash)) =>
            /\ resp'.route = "login"
            /\ Shown(resp') = <<401, "Invalid credentials", NoToken>>]_vars

\* the plain user is banned, and a login for an email nobody registered was
\* refused
C26_Witness ==
  /\ users[3].isBanned
  /\ resp.route = "login" /\ resp.arg = <<"rick@r.co", "secret1">>
  /\ Shown(resp) = <<401, "Invalid credentials", NoToken>>

\* every stored user has one of the three roles
RolesInEnum == \A i \in DOMAIN users : users[i].role \in {"user", "moderator", "admin"}

\* C29: every stored user has one of the roles user, moderator, admin; a role
\* request that passes the admin gate with a role outside that set, or with
\* none, is answered 400 'Invalid role' and changes no user; one with a role
\* inside the set is answered 200, gives the addressed user that role and
\* changes nothing else of any user.
C29_RoleEnumeration ==
  /\ []RolesInEnum
  /\ [][(Answered({"role"}) /\ resp'.status \notin {401, 403}) =>
          IF resp'.arg[1] \notin {"user", "moderator", "admin"}
          THEN resp'.status = 400 /\ resp'.msg = "Invalid role" /\ users' = users
          ELSE /\ resp'.status = 200
               /\ DOMAIN users' = DOMAIN users
               /\ \A i \in DOMAIN users :
                    users'[i] = IF i = resp'.target
                                THEN [users[i] EXCEPT !.role = resp'.arg[1]] ELSE users[i]]_vars

\* the admin asked for a role outside the enumeration for the newly
\* registered user and was refused; that user is a plain user
C29_Witness ==
  /\ resp.route = "role" /\ resp.tok = generateToken(1) /\ resp.target = 4
  /\ resp.arg = <<"owner">> /\ resp.status = 400
  /\ 4 \in DOMAIN users /\ users[4].role = "user" /\ users[3].role = "moderator"


\* the index of the first line break of a text, one past its end when it has none
FirstBreak(t) ==
  IF \E i \in 1..Len(t) : t[i] = "\n"
  THEN CHOOSE i \in 1..Len(t) : t[i] = "\n" /\ \A j \in 1..(i - 1) : t[j] # "\n"
  ELSE Len(t) + 1

\* a text without its leading and trailing blanks and line breaks
Stripped(t) ==
  LET ink == {i \in 1..Len(t) : t[i] \notin {" ", "\n"}}
  IN IF ink = {} THEN <<>>
     ELSE SubSeq(t, CHOOSE i \in ink : \A j \in ink : i <= j,
                    CHOOSE i \in ink : \A j \in ink : j <= i)

\* C22: for every pasted text, when the first line is not empty, is shorter
\* than 200 characters and holds no period, parseManualContent returns that
\* line trimmed as the title and the remaining lines, joined and trimmed, as
\* the content; otherwise it returns an empty title and the whole text.
C22_PasteHeuristic ==
  LET t == ui.pasted
      k == FirstBreak(t)
      first == SubSeq(t, 1, k - 1)
      rest == SubSeq(t, k + 1, Len(t))
  IN IF first # <<>> /\ Len(first) < TitleLimit /\ (\A i \in 1..Len(first) : first[i] # ".")
     THEN ui.parsed.title = Stripped(first) /\ ui.parsed.content = Stripped(rest)
     ELSE ui.parsed.title = <<>> /\ ui.parsed.content = t

C22_Witness ==
  /\ ui.op = "manualImport"
  /\ ui.pasted = <<" ", "a", "\n", "a">>
  /\ ui.parsed.title = <<"a">>
  /\ ui.parsed.content = <<"a">>


\* a URL of an AO3 work: http or https, an optional www., the host, /works/
\* and at least one digit
WorkUrl(u) ==
  u \in {"https://archiveofourown.org/works/123",
         "http://www.archiveofourown.org/works/9/chapters/1"}

\* a step of the URL import: handleUrlImport ran last and changed something
UrlImportStep == ui'.op = "urlImport" /\ ui' # ui /\ (ui.op # "urlImport" => ui.pc = "idle")

\* C23: handleUrlImport never yields data. Whatever URL is submitted,
\* previewData is left unchanged; an empty or malformed URL sets the error
\* without entering the loading state; a well-formed one enters it, the error
\* is set when the fetch settles, and isLoading eventually returns to false.
C23_UrlImportNeverYields ==
  /\ [][UrlImportStep =>
          /\ ui'.previewData = ui.previewData
          /\ (ui.pc = "idle" /\ ~WorkUrl(ui.url)) =>
                (ui'.error # "" /\ ~ui'.isLoading /\ ui'.pc = "idle")
          /\ (ui.pc = "idle" /\ WorkUrl(ui.url)) => ui'.isLoading
          /\ ui.pc = "fetching" => (ui'.error # "" /\ ~ui'.isLoading)]_vars
  /\ [](ui.isLoading => WorkUrl(ui.url))
  /\ (ui.isLoading ~> ~ui.isLoading)

C23_Witness ==
  /\ ui.op = "urlImport"
  /\ ui.pc = "idle"
  /\ ui.url = "https://archiveofourown.org/works/123"
  /\ ui.error = "Unable to automatically import from AO3. Please use manual import instead."
  /\ ~ui.isLoading
  /\ ui.previewData.some

\* C30: when the user confirms a preview, the upload form's title, content,
\* description, tags, wordCount, chapterCount and rating equal the imported
\* values, and the import component's previewData, url and error are reset.
C30_PreviewCarriedIntoForm ==
  [][(ui.previewData.some /\ ui'.op = "import" /\ ~ui'.previewData.some) =>
       /\ ui'.form.title = ui.previewData.title
       /\ ui'.form.content = ui.previewData.content
       /\ ui'.form.description = ui.previewData.description
       /\ ui'.form.tags = ui.previewData.tags
       /\ ui'.form.wordCount = ui.previewData.wordCount
       /\ ui'.form.chapterCount = ui.previewData.chapterCount
       /\ ui'.form.rating = ui.previewData.rating
       /\ ~ui'.previewData.some /\ ui'.url = "" /\ ui'.error = ""]_vars

====
